---- MODULE Spec2Model ----
(***************************************************************************)
(* Target-lifecycle reconciliation of the web health monitoring stack:     *)
(* the stream-triggered Infrastructure Lambda (modules/                    *)
(* InfrastructureLambda.py) that keeps the CloudWatch alarms and the       *)
(* aggregate dashboard widgets in step with the targets table.             *)
(*                                                                         *)
(* The CloudWatch backend is the pair (alarms, dashboard).  Every backend  *)
(* call the handler makes is numbered in the order it is issued; a fault   *)
(* plan F names the numbers of the calls the backend rejects.              *)
(*                                                                         *)
(* Specifications: Spec (one stream record per invocation), SpecBatch (a   *)
(* batch of records, one loop iteration per step), SpecManagers (the alarm *)
(* functions of InfrastructureLambda and of DashboardManagerLambda over    *)
(* one backend), SpecRace (two dashboard calls interleaved at their fetch  *)
(* and write-back), SpecStream (the targets table written by CRUDLambda   *)
(* and its stream delivered in any order), SpecCrud (the requests of the   *)
(* CRUD API handled by CRUDLambda, one after the other), SpecProbe (one    *)
(* call of MonitoringLambda.monitor_website), SpecMonitor (one invocation  *)
(* of the Monitoring Lambda over the enabled targets), SpecWidgets (the    *)
(* dashboard functions for any display name), SpecCrudRace (update_target  *)
(* taken at its two store calls among other requests) and SpecLifecycle    *)
(* (targets created, edited and deleted, their records delivered in any    *)
(* order, with the history of name uniqueness and delivery order).         *)
(***************************************************************************)
EXTENDS FiniteSets, Integers, Sequences, TLC

\* ------------------------------------------------------------------ bounds
MaxSeries == 3   \* longest metric list an aggregate widget grows to
MaxFaults == 1   \* backend calls that may fail while one record is handled
MaxBatch  == 2   \* records in one delivered batch (SpecBatch)

\* display names of targets
Names == {"A", "B"}

\* --------------------------------------------------------------- constants
METRIC_NAMESPACE    == "WebMonitoring/Health"
METRIC_AVAILABILITY == "Availability"
METRIC_LATENCY      == "Latency"
METRIC_THROUGHPUT   == "Throughput"
DIM_WEBSITE         == "Website"
PLACEHOLDER         == "__placeholder__"

TITLE_AVAILABILITY == "Website Availability (All Sites)"
TITLE_LATENCY      == "Response Time - All Websites (ms)"
TITLE_THROUGHPUT   == "Throughput - All Websites (bytes/s)"
AggregateTitles    == {TITLE_AVAILABILITY, TITLE_LATENCY, TITLE_THROUGHPUT}

\* most backend calls one record can cause: a rename issues delete_alarms,
\* get/put_dashboard, three put_metric_alarm, get/put_dashboard
MaxCalls == 8

NoName == "-"

\* ------------------------------------------------------------ alarm names
\* f"{website_name}-{Metric}-Alarm": the pair (name, metric) stands for the
\* formatted string, which determines both of its parts.
AlarmName(website_name, metric) == <<website_name, metric, "Alarm">>

alarm_names(website_name) ==
    << AlarmName(website_name, METRIC_AVAILABILITY),
       AlarmName(website_name, METRIC_LATENCY),
       AlarmName(website_name, METRIC_THROUGHPUT) >>

Range(s) == {s[i] : i \in DOMAIN s}

\* -------------------------------------------------------- dashboard body
\* a metric line [Namespace, MetricName, DimensionName, DimensionValue, {options}]
MetricLine(metric, website_name) ==
    <<METRIC_NAMESPACE, metric, DIM_WEBSITE, website_name, [label |-> website_name]>>

\* the placeholder line remove_dashboard_widgets substitutes (no options)
PlaceholderLine(metric) == <<METRIC_NAMESPACE, metric, DIM_WEBSITE, PLACEHOLDER>>

\* the placeholder line the stack deploys
DummyMetric(metric) ==
    <<METRIC_NAMESPACE, metric, DIM_WEBSITE, PLACEHOLDER,
      [label |-> "No websites configured yet"]>>

LambdaWidget(title, ns, metric, dim) ==
    [title |-> title,
     metrics |-> << <<ns, metric, dim, "WebMonitoring">> >>]

\* the dashboard as deployed: four Lambda operational widgets, then the three
\* aggregate widgets, each holding its placeholder
InitialDashboard ==
    << LambdaWidget("Monitoring Lambda Duration (ms)", "AWS/Lambda", "Duration", "FunctionName"),
       LambdaWidget("Monitoring Lambda Invocations", "AWS/Lambda", "Invocations", "FunctionName"),
       LambdaWidget("Monitoring Lambda Errors", "AWS/Lambda", "Errors", "FunctionName"),
       LambdaWidget("Monitoring Lambda Memory (MB)", "LambdaInsights", "used_memory_max", "function_name"),
       [title |-> TITLE_AVAILABILITY, metrics |-> <<DummyMetric(METRIC_AVAILABILITY)>>],
       [title |-> TITLE_LATENCY,      metrics |-> <<DummyMetric(METRIC_LATENCY)>>],
       [title |-> TITLE_THROUGHPUT,   metrics |-> <<DummyMetric(METRIC_THROUGHPUT)>>] >>

\* ---------------------------------------------------------------- state
VARIABLES
    alarms,      \* names of the alarms in the backend
    dashboard,   \* the dashboard document: its widgets array
    lastRecord,  \* the stream record handled last
    calls,       \* the backend calls issued while handling lastRecord, in order
    caught,      \* the exception lambda_handler caught for lastRecord, or "none"
    status,      \* statusCode of the last return of lambda_handler (0: none yet)
    created,     \* names whose three creations succeeded, no deletion call since
    streak,      \* consecutive records up to lastRecord that are REMOVE of its name
    batch,       \* the records of the batch being handled (SpecBatch)
    idx,         \* how many records of batch the loop has taken (SpecBatch)
    outcomes,    \* per taken record: the record and what was caught (SpecBatch)
    detectors,   \* anomaly detectors in the backend: pairs <<name, metric>>
    lastOp,      \* the alarm operation run last and by which module (SpecManagers)
    race,        \* the two concurrent dashboard calls, each at its step (SpecRace)
    writes,      \* documents written by the calls of race so far (SpecRace)
    table,       \* the targets table: a set of items, each under its TargetId
    clock,       \* writes made to the targets table so far (SpecStream)
    stream,      \* stream records written and not yet delivered (SpecStream)
    delivered,   \* the stream record handled last and those before it (SpecStream)
    probe,       \* one call of monitor_website: the request and what returned (SpecProbe)
    pass,        \* one invocation of the Monitoring Lambda, at its step (SpecMonitor)
    http,        \* the request CRUDLambda handled last and its response (SpecCrud)
    inflight,    \* an update_target between its get_item and its update_item
    history      \* whether names stayed unique and deliveries in order so far

vars == <<alarms, dashboard, lastRecord, calls, caught, status, created, streak,
          batch, idx, outcomes, detectors, lastOp, race, writes,
          table, clock, stream, delivered, probe, pass, http, inflight,
          history>>

\* what the Infrastructure Lambda reads and writes
reconcilerVars == <<alarms, dashboard, lastRecord, calls, caught, status, created,
                    streak, batch, idx, outcomes, detectors>>

streamVars == <<table, clock, stream, delivered>>

\* what the Infrastructure Lambda alone never writes
otherVars == <<lastOp, race, writes, table, clock, stream, delivered,
               probe, pass, http, inflight, history>>

NoRecord == [eventName |-> "NONE", OldImage |-> NoName, NewImage |-> NoName]

\* a dashboard call that has not been invoked
Idle == [op |-> "none", name |-> NoName, pc |-> "idle", doc |-> <<>>,
         seen |-> 0, wrote |-> 0, failed |-> FALSE]

\* no call of monitor_website, no monitoring pass, no request to the CRUD API
NoProbe == [website_name |-> NoName]
NoPass == [pc |-> "idle"]
NoHttp == [request |-> [httpMethod |-> "NONE"]]

\* no update_target under way; nothing written or delivered yet
NoUpdate == [pc |-> "idle"]
NoHistory == [unique |-> TRUE, ordered |-> TRUE]

\* the targets table as deployed: no items
InitTable == table = {}

\* the Infrastructure Lambda has handled nothing, no alarm exists
InitRest ==
    /\ alarms = {}
    /\ lastRecord = NoRecord
    /\ calls = <<>>
    /\ caught = "none"
    /\ status = 0
    /\ created = {}
    /\ streak = 0
    /\ batch = <<>>
    /\ idx = 0
    /\ outcomes = <<>>
    /\ detectors = {}
    /\ lastOp = [module |-> "none", op |-> "none", name |-> NoName]
    /\ race = <<Idle, Idle>>
    /\ writes = 0
    /\ clock = 0
    /\ stream = {}
    /\ delivered = [last |-> [seq |-> 0, TargetId |-> 0, record |-> NoRecord,
                            caught |-> "none", faulted |-> FALSE],
                   earlier |-> {}]

Init ==
    /\ dashboard = InitialDashboard
    /\ InitRest
    /\ InitTable
    /\ probe = NoProbe
    /\ pass = NoPass
    /\ http = NoHttp
    /\ inflight = NoUpdate
    /\ history = NoHistory

\* ------------------------------------------------------- backend calls
\* A world is the backend together with the log of the calls issued so far.
World(a, d, c) == [alarms |-> a, dash |-> d, calls |-> c]

\* the backend with its anomaly detectors
WorldWith(a, d, c, det) ==
    [alarms |-> a, dash |-> d, calls |-> c, detectors |-> det]

\* outcome of the next call under fault plan F.  "error" is any exception the
\* client raises (ResourceNotFound included: every except clause that names it
\* does what the except Exception clause next to it does)
Outcome(w, F) == IF (Len(w.calls) + 1) \in F THEN "error" ELSE "ok"

Logged(w, call) == [w EXCEPT !.calls = Append(@, call)]

\* cloudwatch.put_metric_alarm(AlarmName=...): creates or overwrites
put_metric_alarm(w, F, website_name, metric) ==
    LET res == Outcome(w, F)
        w1  == Logged(w, [op |-> "put_metric_alarm", site |-> website_name,
                          caller |-> "create", res |-> res,
                          arg |-> AlarmName(website_name, metric)])
    IN  [w |-> IF res = "ok"
               THEN [w1 EXCEPT !.alarms = @ \cup {AlarmName(website_name, metric)}]
               ELSE w1,
         exc |-> IF res = "ok" THEN "none" ELSE res]

\* variant: only the first of the named alarms is deleted
delete_alarms_first(w, F, website_name, names) ==
    LET res == Outcome(w, F)
        w1  == Logged(w, [op |-> "delete_alarms", site |-> website_name,
                          caller |-> "delete", res |-> res,
                          arg |-> Range(names) \cap w.alarms])
    IN  [w |-> IF res = "ok" THEN [w1 EXCEPT !.alarms = @ \ {names[1]}] ELSE w1,
         exc |-> IF res = "ok" THEN "none" ELSE res]

\* cloudwatch.delete_alarms(AlarmNames=[...]): one batched call
delete_alarms(w, F, website_name, names) ==
    LET res == Outcome(w, F)
        w1  == Logged(w, [op |-> "delete_alarms", site |-> website_name,
                          caller |-> "delete", res |-> res,
                          arg |-> Range(names) \cap w.alarms])
    IN  [w |-> IF res = "ok" THEN [w1 EXCEPT !.alarms = @ \ Range(names)] ELSE w1,
         exc |-> IF res = "ok" THEN "none" ELSE res]

\* cloudwatch.get_dashboard(DashboardName=...)
get_dashboard(w, F, website_name, caller) ==
    LET res == Outcome(w, F)
    IN  [w |-> Logged(w, [op |-> "get_dashboard", site |-> website_name,
                          caller |-> caller, res |-> res, arg |-> w.dash]),
         exc |-> IF res = "ok" THEN "none" ELSE res]

\* cloudwatch.put_dashboard(DashboardName=..., DashboardBody=...)
put_dashboard(w, F, website_name, caller, body) ==
    LET res == Outcome(w, F)
        w1  == Logged(w, [op |-> "put_dashboard", site |-> website_name,
                          caller |-> caller, res |-> res, arg |-> body])
    IN  [w |-> IF res = "ok" THEN [w1 EXCEPT !.dash = body] ELSE w1,
         exc |-> IF res = "ok" THEN "none" ELSE res]

Swallow(r) == [w |-> r.w, exc |-> "none"]

\* -------------------------------------------------------- Widget Manager
\* for widget in widgets: if title == ...: x_widget = widget  (the last match)
FindWidget(widgets, title) ==
    LET S == {i \in DOMAIN widgets : widgets[i].title = title}
    IN  IF S = {} THEN 0 ELSE CHOOSE i \in S : \A j \in S : j <= i

\* len(m) >= 4 and m[3] == value   (m[3] is the fourth element)
HasDimensionValue(m, value) == Len(m) >= 4 /\ m[4] = value

\* variant: the placeholder is left in place
AppendLine_keep(widgets, i, metric, website_name) ==
    IF i = 0 THEN widgets
    ELSE [widgets EXCEPT ![i].metrics = Append(@, MetricLine(metric, website_name))]

\* metrics = [m for m in metrics if not placeholder]; metrics.append([...])
AppendLine(widgets, i, metric, website_name) ==
    IF i = 0 THEN widgets
    ELSE [widgets EXCEPT ![i].metrics =
             Append(SelectSeq(@, LAMBDA m : ~HasDimensionValue(m, PLACEHOLDER)),
                    MetricLine(metric, website_name))]

\* the document add_dashboard_widgets makes of the one it fetched
AddBody(widgets, website_name) ==
    LET b1 == AppendLine(widgets, FindWidget(widgets, TITLE_AVAILABILITY),
                         METRIC_AVAILABILITY, website_name)
        b2 == AppendLine(b1, FindWidget(widgets, TITLE_LATENCY),
                         METRIC_LATENCY, website_name)
    IN  AppendLine(b2, FindWidget(widgets, TITLE_THROUGHPUT),
                   METRIC_THROUGHPUT, website_name)

\* variant: the excepts re-raise
add_dashboard_widgets_raise(w, F, website_name) ==
    LET g == get_dashboard(w, F, website_name, "add")
    IN  IF g.exc # "none" THEN g
        ELSE LET widgets == w.dash
                 b1 == AppendLine(widgets, FindWidget(widgets, TITLE_AVAILABILITY),
                                  METRIC_AVAILABILITY, website_name)
                 b2 == AppendLine(b1, FindWidget(widgets, TITLE_LATENCY),
                                  METRIC_LATENCY, website_name)
                 b3 == AppendLine(b2, FindWidget(widgets, TITLE_THROUGHPUT),
                                  METRIC_THROUGHPUT, website_name)
             IN  put_dashboard(g.w, F, website_name, "add", b3)

add_dashboard_widgets(w, F, website_name) ==
    LET g == get_dashboard(w, F, website_name, "add")
    IN  IF g.exc # "none" THEN Swallow(g)
        ELSE Swallow(put_dashboard(g.w, F, website_name, "add",
                                   AddBody(w.dash, website_name)))

\* 'Availability' in title / 'Response Time' in title or 'Latency' in title /
\* else, decided on the three titles the branch is reached with
PlaceholderMetricName(title) ==
    IF title = TITLE_AVAILABILITY THEN METRIC_AVAILABILITY
    ELSE IF title = TITLE_LATENCY THEN METRIC_LATENCY
    ELSE METRIC_THROUGHPUT

\* one iteration of the loop over widgets: the widget as left by it and what
\* it adds to removed_count
FilterWidget(widget, website_name) ==
    IF widget.title \notin AggregateTitles
    THEN [widget |-> widget, removed |-> 0]
    ELSE LET metrics == widget.metrics
             original_count == Len(metrics)
             kept == SelectSeq(metrics, LAMBDA m : ~HasDimensionValue(m, website_name))
             filtered_metrics ==
                 IF Len(kept) = 0
                 THEN <<PlaceholderLine(PlaceholderMetricName(widget.title))>>
                 ELSE kept
         IN  IF Len(filtered_metrics) < original_count
             THEN [widget |-> [widget EXCEPT !.metrics = filtered_metrics],
                   removed |-> original_count - Len(filtered_metrics)]
             ELSE [widget |-> widget, removed |-> 0]

RECURSIVE SumRemoved(_, _, _)
SumRemoved(widgets, website_name, i) ==
    IF i = 0 THEN 0
    ELSE SumRemoved(widgets, website_name, i - 1)
         + FilterWidget(widgets[i], website_name).removed

\* the document remove_dashboard_widgets makes of the one it fetched
RemoveBody(widgets, website_name) ==
    [i \in DOMAIN widgets |-> FilterWidget(widgets[i], website_name).widget]

\* variant: an aggregate widget left without a line is dropped from the document
remove_dashboard_widgets_drop(w, F, website_name) ==
    LET g == get_dashboard(w, F, website_name, "remove")
    IN  IF g.exc # "none" THEN Swallow(g)
        ELSE LET widgets == w.dash
                 Emptied(wd) ==
                     /\ wd.title \in AggregateTitles
                     /\ \A k \in DOMAIN wd.metrics :
                            HasDimensionValue(wd.metrics[k], website_name)
                 body == SelectSeq(widgets, LAMBDA wd : ~Emptied(wd))
             IN  IF Len(body) < Len(widgets)
                 THEN Swallow(put_dashboard(g.w, F, website_name, "remove", body))
                 ELSE Swallow(g)

\* variant: the document is written back whether or not a line was removed
remove_dashboard_widgets_always(w, F, website_name) ==
    LET g == get_dashboard(w, F, website_name, "remove")
    IN  IF g.exc # "none" THEN Swallow(g)
        ELSE LET widgets == w.dash
                 body == [i \in DOMAIN widgets |->
                              FilterWidget(widgets[i], website_name).widget]
             IN  Swallow(put_dashboard(g.w, F, website_name, "remove", body))

remove_dashboard_widgets(w, F, website_name) ==
    LET g == get_dashboard(w, F, website_name, "remove")
    IN  IF g.exc # "none" THEN Swallow(g)
        ELSE LET widgets == w.dash
                 body == RemoveBody(widgets, website_name)
                 removed_count == SumRemoved(widgets, website_name, Len(widgets))
             IN  IF removed_count > 0
                 THEN Swallow(put_dashboard(g.w, F, website_name, "remove", body))
                 ELSE Swallow(g)

\* --------------------------------------------------------- Alarm Manager
\* variant: a failed creation is logged and the dashboard is updated anyway
handle_website_added_swallow(w, F, website_name) ==
    LET r1 == put_metric_alarm(w, F, website_name, METRIC_AVAILABILITY)
        r2 == put_metric_alarm(r1.w, F, website_name, METRIC_LATENCY)
        r3 == put_metric_alarm(r2.w, F, website_name, METRIC_THROUGHPUT)
    IN  add_dashboard_widgets(r3.w, F, website_name)

\* variant: the third creation reuses the name of the second alarm
handle_website_added_copy(w, F, website_name) ==
    LET r1 == put_metric_alarm(w, F, website_name, METRIC_AVAILABILITY)
    IN  IF r1.exc # "none" THEN r1
        ELSE LET r2 == put_metric_alarm(r1.w, F, website_name, METRIC_LATENCY)
             IN  IF r2.exc # "none" THEN r2
                 ELSE LET r3 == put_metric_alarm(r2.w, F, website_name,
                                                 METRIC_LATENCY)
                      IN  IF r3.exc # "none" THEN r3
                          ELSE add_dashboard_widgets(r3.w, F, website_name)

\* variant: a failed creation deletes the alarms of the name before re-raising
handle_website_added_rollback(w, F, website_name) ==
    LET undo(r) == [w |-> delete_alarms(r.w, {}, website_name,
                                        alarm_names(website_name)).w,
                    exc |-> r.exc]
        r1 == put_metric_alarm(w, F, website_name, METRIC_AVAILABILITY)
    IN  IF r1.exc # "none" THEN undo(r1)
        ELSE LET r2 == put_metric_alarm(r1.w, F, website_name, METRIC_LATENCY)
             IN  IF r2.exc # "none" THEN undo(r2)
                 ELSE LET r3 == put_metric_alarm(r2.w, F, website_name,
                                                 METRIC_THROUGHPUT)
                      IN  IF r3.exc # "none" THEN undo(r3)
                          ELSE add_dashboard_widgets(r3.w, F, website_name)

\* the three put_metric_alarm calls, then the dashboard; the except re-raises
handle_website_added(w, F, website_name) ==
    LET r1 == put_metric_alarm(w, F, website_name, METRIC_AVAILABILITY)
    IN  IF r1.exc # "none" THEN r1
        ELSE LET r2 == put_metric_alarm(r1.w, F, website_name, METRIC_LATENCY)
             IN  IF r2.exc # "none" THEN r2
                 ELSE LET r3 == put_metric_alarm(r2.w, F, website_name,
                                                 METRIC_THROUGHPUT)
                      IN  IF r3.exc # "none" THEN r3
                          ELSE add_dashboard_widgets(r3.w, F, website_name)

\* variant: the except re-raises, as the one of handle_website_added does
handle_website_removed_raise(w, F, website_name) ==
    LET r1 == delete_alarms(w, F, website_name, alarm_names(website_name))
    IN  IF r1.exc # "none" THEN r1
        ELSE remove_dashboard_widgets(r1.w, F, website_name)

\* delete_alarms, then the dashboard inside the same try; the except swallows
handle_website_removed(w, F, website_name) ==
    LET r1 == delete_alarms(w, F, website_name, alarm_names(website_name))
    IN  IF r1.exc # "none" THEN Swallow(r1)
        ELSE remove_dashboard_widgets(r1.w, F, website_name)

\* ------------------------------------------------------------ Reconciler
Record(eventName, old, new) ==
    [eventName |-> eventName, OldImage |-> old, NewImage |-> new]

Records ==
    {Record("INSERT", NoName, n) : n \in Names}
    \cup {Record("REMOVE", n, NoName) : n \in Names}
    \cup {Record("MODIFY", o, n) : o \in Names, n \in Names}

\* variant: a rename only creates under the new name
process_record_keep_old(w, record, F) ==
    IF record.eventName = "INSERT"
    THEN handle_website_added(w, F, record.NewImage)
    ELSE IF record.eventName = "REMOVE"
    THEN handle_website_removed(w, F, record.OldImage)
    ELSE IF record.eventName = "MODIFY" /\ record.OldImage # record.NewImage
    THEN handle_website_added(w, F, record.NewImage)
    ELSE [w |-> w, exc |-> "none"]

\* variant: every Modified record is handled as a rename
process_record_always_rename(w, record, F) ==
    IF record.eventName = "INSERT"
    THEN handle_website_added(w, F, record.NewImage)
    ELSE IF record.eventName = "REMOVE"
    THEN handle_website_removed(w, F, record.OldImage)
    ELSE IF record.eventName = "MODIFY"
    THEN LET r == handle_website_removed(w, F, record.OldImage)
         IN  handle_website_added(r.w, F, record.NewImage)
    ELSE [w |-> w, exc |-> "none"]

\* the body of the try in the loop of lambda_handler; exc is what reaches
\* the except of the loop
process_record(w, record, F) ==
    IF record.eventName = "INSERT"
    THEN handle_website_added(w, F, record.NewImage)
    ELSE IF record.eventName = "REMOVE"
    THEN handle_website_removed(w, F, record.OldImage)
    ELSE IF record.eventName = "MODIFY"
    THEN IF record.OldImage # record.NewImage
         THEN LET r == handle_website_removed(w, F, record.OldImage)
              IN  handle_website_added(r.w, F, record.NewImage)
         ELSE [w |-> w, exc |-> "none"]
    ELSE [w |-> w, exc |-> "none"]

\* backend calls a record can cause at most
NumCalls(record) ==
    IF record.eventName = "INSERT" THEN 5
    ELSE IF record.eventName = "REMOVE" THEN 3
    ELSE IF record.OldImage # record.NewImage THEN MaxCalls
    ELSE 0

FaultPlans(record) ==
    {F \in SUBSET (1..NumCalls(record)) : Cardinality(F) <= MaxFaults}

\* the aggregate widgets have room for one more line
HasRoom(widgets) ==
    \A i \in DOMAIN widgets :
        widgets[i].title \in AggregateTitles => Len(widgets[i].metrics) < MaxSeries

Adds(record) ==
    \/ record.eventName = "INSERT"
    \/ record.eventName = "MODIFY" /\ record.OldImage # record.NewImage

\* names for which the log holds a deletion call
DeletedIn(log) == {log[i].site : i \in {j \in DOMAIN log : log[j].op = "delete_alarms"}}

\* history: a name enters when handle_website_added ran for it without raising
\* and leaves with any deletion call made for it (in a rename the deletion of
\* the old name comes first)
CreatedAfter(c, record, r) ==
    (c \ DeletedIn(r.w.calls))
    \cup (IF Adds(record) /\ r.exc = "none" THEN {record.NewImage} ELSE {})

StreakCap == 2

\* one iteration of the loop over event['Records']: the try and its except
Iteration(record, F) ==
    /\ LET r == process_record(World(alarms, dashboard, <<>>), record, F)
       IN  /\ alarms' = r.w.alarms
           /\ dashboard' = r.w.dash
           /\ calls' = r.w.calls
           /\ caught' = r.exc
           /\ created' = CreatedAfter(created, record, r)
    /\ lastRecord' = record
    /\ streak' = IF record.eventName # "REMOVE" THEN 0
                 ELSE IF lastRecord = record /\ streak < StreakCap THEN streak + 1
                 ELSE IF lastRecord = record THEN streak
                 ELSE 1

\* lambda_handler on a batch of one record (the stack's batch_size): one
\* iteration, then return {'statusCode': 200, ...}
Handle(record, F) ==
    /\ Adds(record) => HasRoom(dashboard)
    /\ Iteration(record, F)
    /\ status' = 200
    /\ UNCHANGED <<batch, idx, outcomes, detectors>>
    /\ UNCHANGED otherVars

OnInsert ==
    \E n \in Names : \E F \in FaultPlans(Record("INSERT", NoName, n)) :
        Handle(Record("INSERT", NoName, n), F)

OnRemove ==
    \E n \in Names : \E F \in FaultPlans(Record("REMOVE", n, NoName)) :
        Handle(Record("REMOVE", n, NoName), F)

OnModify ==
    \E o \in Names, n \in Names : \E F \in FaultPlans(Record("MODIFY", o, n)) :
        Handle(Record("MODIFY", o, n), F)

Next == OnInsert \/ OnRemove \/ OnModify

Spec == Init /\ [][Next]_vars

\* ------------------------------------------------- batches of several records
\* lambda_handler taken one loop iteration at a time over a delivered batch

RECURSIVE CountAdds(_, _)
CountAdds(records, i) ==
    IF i = 0 THEN 0
    ELSE CountAdds(records, i - 1) + (IF Adds(records[i]) THEN 1 ELSE 0)

LongestAggregate(widgets) ==
    LET L == {Len(widgets[i].metrics) :
                  i \in {j \in DOMAIN widgets : widgets[j].title \in AggregateTitles}}
    IN  CHOOSE m \in L : \A k \in L : k <= m

\* the records batches are made of: inserts and removes of either name and
\* the rename of one into the other
BatchRecords ==
    {r \in Records : r.eventName # "MODIFY" \/ (r.OldImage = "A" /\ r.NewImage = "B")}

Batches == UNION {[1..n -> BatchRecords] : n \in 1..MaxBatch}

\* variant: an exception leaves the loop
Continue_abort(i, n, exc) == IF exc # "none" THEN n ELSE i + 1

\* the index the loop goes on with after an iteration that caught exc:
\* `continue` takes the next record whatever was caught
Continue(i, n, exc) == i + 1

\* the Change Source invokes lambda_handler with event['Records'] = records
Deliver(records) ==
    /\ batch = <<>> \/ status = 200
    /\ LongestAggregate(dashboard) + CountAdds(records, Len(records)) <= MaxSeries
    /\ batch' = records
    /\ idx' = 0
    /\ outcomes' = <<>>
    /\ status' = 0
    /\ UNCHANGED <<alarms, dashboard, lastRecord, calls, caught, created, streak,
                   detectors>>
    /\ UNCHANGED otherVars

\* for record in event['Records']: try ... except Exception: continue
\* (the per-record log of Spec is not kept here; outcomes holds what was caught)
ProcessNext(F) ==
    /\ status = 0
    /\ idx < Len(batch)
    /\ LET r == process_record(World(alarms, dashboard, <<>>), batch[idx + 1], F)
       IN  /\ alarms' = r.w.alarms
           /\ dashboard' = r.w.dash
           /\ outcomes' = Append(outcomes, [record |-> batch[idx + 1],
                                            caught |-> r.exc])
           /\ idx' = Continue(idx, Len(batch), r.exc)
    /\ UNCHANGED <<batch, status, lastRecord, calls, caught, created, streak,
                   detectors>>
    /\ UNCHANGED otherVars

\* variant: a batch with a failed record is answered with an error
StatusCode_reporting(outs) ==
    IF \E i \in DOMAIN outs : outs[i].caught # "none" THEN 500 ELSE 200

\* the statusCode of the returned dictionary: the literal 200, whatever the
\* iterations caught
StatusCode(outs) == 200

\* return {'statusCode': 200, ...} once the loop has run out of records
Return ==
    /\ status = 0
    /\ batch # <<>>
    /\ idx >= Len(batch)
    /\ status' = StatusCode(outcomes)
    /\ UNCHANGED <<alarms, dashboard, lastRecord, calls, caught, created, streak,
                   batch, idx, outcomes, detectors>>
    /\ UNCHANGED otherVars

DeliverBatch == \E records \in Batches : Deliver(records)

ProcessRecord ==
    /\ idx < Len(batch)
    /\ \E F \in FaultPlans(batch[idx + 1]) : ProcessNext(F)

NextBatch == DeliverBatch \/ ProcessRecord \/ Return

SpecBatch == Init /\ [][NextBatch]_vars

\* ------------------------------- the alarm functions of DashboardManagerLambda
\* (modules/DashboardManagerLambda.py: the full-sync manager of the repository,
\* which manages anomaly detectors explicitly)
AnomalyMetrics == <<METRIC_LATENCY, METRIC_THROUGHPUT>>

\* cloudwatch.put_anomaly_detector(...): "conflict" is the
\* ResourceConflictException the caller names for a detector that exists
put_anomaly_detector(w, F, website_name, metric) ==
    LET res == IF Outcome(w, F) # "ok" THEN "error"
               ELSE IF <<website_name, metric>> \in w.detectors THEN "conflict"
               ELSE "ok"
        w1  == Logged(w, [op |-> "put_anomaly_detector", site |-> website_name,
                          caller |-> "create", res |-> res,
                          arg |-> <<website_name, metric>>])
    IN  [w |-> IF res = "ok"
               THEN [w1 EXCEPT !.detectors = @ \cup {<<website_name, metric>>}]
               ELSE w1,
         exc |-> IF res = "ok" THEN "none" ELSE res]

\* cloudwatch.delete_anomaly_detector(...): "notfound" is the
\* ResourceNotFoundException for a detector that does not exist
delete_anomaly_detector(w, F, website_name, metric) ==
    LET res == IF Outcome(w, F) # "ok" THEN "error"
               ELSE IF <<website_name, metric>> \notin w.detectors THEN "notfound"
               ELSE "ok"
        w1  == Logged(w, [op |-> "delete_anomaly_detector", site |-> website_name,
                          caller |-> "delete", res |-> res,
                          arg |-> <<website_name, metric>>])
    IN  [w |-> IF res = "ok"
               THEN [w1 EXCEPT !.detectors = @ \ {<<website_name, metric>>}]
               ELSE w1,
         exc |-> IF res = "ok" THEN "none" ELSE res]

\* Step 1: put_anomaly_detector, except ResourceConflictException: go on;
\* Step 2: put_metric_alarm.  Any other exception leaves the function.
create_anomaly_detection_alarm(w, F, website_name, metric_name) ==
    LET d == put_anomaly_detector(w, F, website_name, metric_name)
    IN  IF d.exc = "error" THEN d
        ELSE put_metric_alarm(d.w, F, website_name, metric_name)

\* with ALARM_TOPIC_ARN set: the Availability alarm, then the two anomaly
\* detection alarms; the except re-raises
create_alarms_for_website(w, F, website_name) ==
    LET r1 == put_metric_alarm(w, F, website_name, METRIC_AVAILABILITY)
    IN  IF r1.exc # "none" THEN r1
        ELSE LET r2 == create_anomaly_detection_alarm(r1.w, F, website_name,
                                                      METRIC_LATENCY)
             IN  IF r2.exc # "none" THEN r2
                 ELSE create_anomaly_detection_alarm(r2.w, F, website_name,
                                                     METRIC_THROUGHPUT)

\* the alarms one call each, then the two detectors; every except only prints
delete_alarms_for_website(w, F, website_name) ==
    LET names == alarm_names(website_name)
        a1 == Swallow(delete_alarms(w, F, website_name, <<names[1]>>))
        a2 == Swallow(delete_alarms(a1.w, F, website_name, <<names[2]>>))
        a3 == Swallow(delete_alarms(a2.w, F, website_name, <<names[3]>>))
        d1 == Swallow(delete_anomaly_detector(a3.w, F, website_name,
                                              AnomalyMetrics[1]))
    IN  Swallow(delete_anomaly_detector(d1.w, F, website_name, AnomalyMetrics[2]))

\* ------------------------------------ both alarm managers over one backend
\* The alarm operations of the two modules, one call at a time.
Op(module, op, name) == [module |-> module, op |-> op, name |-> name]

\* the name the operations are run for
ManagerNames == {"A"}

\* backend calls create_alarms_for_website and delete_alarms_for_website
\* issue at most: three alarms and two detectors
ManagerCalls == 5

ManagerFaultPlans ==
    {F \in SUBSET (1..ManagerCalls) : Cardinality(F) <= MaxFaults}

\* r is what the operation returned for the backend of the current state
Ran(op, r) ==
    /\ alarms' = r.w.alarms
    /\ dashboard' = r.w.dash
    /\ detectors' = r.w.detectors
    /\ calls' = r.w.calls
    /\ caught' = r.exc
    /\ lastOp' = op
    /\ UNCHANGED <<lastRecord, status, created, streak, batch, idx, outcomes,
                   race, writes, probe, pass, http, inflight, history>>
    /\ UNCHANGED streamVars

Backend == WorldWith(alarms, dashboard, <<>>, detectors)

InfraCreate ==
    \E n \in ManagerNames : \E F \in FaultPlans(Record("INSERT", NoName, n)) :
        /\ HasRoom(dashboard)
        /\ Ran(Op("InfrastructureLambda", "create", n),
               handle_website_added(Backend, F, n))

InfraDelete ==
    \E n \in ManagerNames : \E F \in FaultPlans(Record("REMOVE", n, NoName)) :
        Ran(Op("InfrastructureLambda", "delete", n),
            handle_website_removed(Backend, F, n))

SyncCreate ==
    \E n \in ManagerNames : \E F \in ManagerFaultPlans :
        Ran(Op("DashboardManagerLambda", "create", n),
            create_alarms_for_website(Backend, F, n))

SyncDelete ==
    \E n \in ManagerNames : \E F \in ManagerFaultPlans :
        Ran(Op("DashboardManagerLambda", "delete", n),
            delete_alarms_for_website(Backend, F, n))

\* the targets tables the full sync is run against: no item, or one item
ManagerTables ==
    {{}} \cup {{[TargetId |-> 1, name |-> n, enabled |-> e]} :
                  n \in ManagerNames, e \in BOOLEAN}

\* get_all_current_targets: the names of the items the scan filtered by
\* Attr('enabled').eq(True) returns
get_all_current_targets(tbl) == {item.name : item \in {i \in tbl : i.enabled}}

\* cloudwatch.describe_alarms() filtered by the three suffixes; the except
\* prints and returns []
get_existing_website_alarms(w, F) ==
    LET res == Outcome(w, F)
    IN  [w |-> Logged(w, [op |-> "describe_alarms", site |-> NoName,
                          caller |-> "sync", res |-> res, arg |-> w.alarms]),
         found |-> IF res = "ok" THEN w.alarms ELSE {}]

\* alarm_name with the three suffixes taken off
extract_website_from_alarm_name(alarm) == alarm[1]

\* for target_name in target_names - existing_websites: create (the except
\* re-raises and ends the sync)
RECURSIVE create_missing(_, _, _)
create_missing(w, F, todo) ==
    IF todo = {} THEN [w |-> w, exc |-> "none"]
    ELSE LET n == CHOOSE x \in todo : TRUE
             r == create_alarms_for_website(w, F, n)
         IN  IF r.exc # "none" THEN r ELSE create_missing(r.w, F, todo \ {n})

\* for website in existing_websites - target_names: delete
RECURSIVE delete_stale(_, _, _)
delete_stale(w, F, todo) ==
    IF todo = {} THEN [w |-> w, exc |-> "none"]
    ELSE LET n == CHOOSE x \in todo : TRUE
         IN  delete_stale(delete_alarms_for_website(w, F, n).w, F, todo \ {n})

\* a website is existing as soon as one alarm carries its name
sync_alarms_with_targets(w, F, target_names) ==
    LET e == get_existing_website_alarms(w, F)
        existing_websites == {extract_website_from_alarm_name(a) : a \in e.found}
        c == create_missing(e.w, F, target_names \ existing_websites)
    IN  IF c.exc # "none" THEN c
        ELSE delete_stale(c.w, F, existing_websites \ target_names)

\* describe_alarms, then the calls of one create or one delete
SyncCalls == ManagerCalls + 1

SyncFaultPlans == {F \in SUBSET (1..SyncCalls) : Cardinality(F) <= MaxFaults}

\* the targets table is written (CRUDLambda); the alarm backend is untouched
WriteTargets ==
    \E T \in ManagerTables :
        /\ T # table
        /\ table' = T
        /\ UNCHANGED reconcilerVars
        /\ UNCHANGED <<lastOp, race, writes, clock, stream, delivered, probe,
                       pass, http, inflight, history>>

\* lambda_handler of DashboardManagerLambda on a stream event: the alarm half
\* of the full sync, against the enabled targets of the table
SyncTargets ==
    \E F \in SyncFaultPlans :
        Ran(Op("DashboardManagerLambda", "sync", NoName),
            sync_alarms_with_targets(Backend, F, get_all_current_targets(table)))

NextManagers ==
    InfraCreate \/ InfraDelete \/ SyncCreate \/ SyncDelete \/ WriteTargets
    \/ SyncTargets

SpecManagers == Init /\ [][NextManagers]_vars

\* ------------------------------------------- the Widget Manager on its own
\* add_dashboard_widgets and remove_dashboard_widgets, one call at a time,
\* for targets whose display name is any string, the placeholder value included
WidgetNames == {"A", "B", PLACEHOLDER}

\* get_dashboard, put_dashboard
WidgetFaultPlans == {F \in SUBSET (1..2) : Cardinality(F) <= MaxFaults}

AddWidgets ==
    \E n \in WidgetNames : \E F \in WidgetFaultPlans :
        /\ HasRoom(dashboard)
        /\ Ran(Op("InfrastructureLambda", "add", n),
               add_dashboard_widgets(Backend, F, n))

RemoveWidgets ==
    \E n \in WidgetNames : \E F \in WidgetFaultPlans :
        Ran(Op("InfrastructureLambda", "remove", n),
            remove_dashboard_widgets(Backend, F, n))

NextWidgets == AddWidgets \/ RemoveWidgets

SpecWidgets == Init /\ [][NextWidgets]_vars

\* ------------------------------------- two dashboard calls at the same time
\* add_dashboard_widgets / remove_dashboard_widgets of two invocations running
\* concurrently on the one dashboard, each taken in two steps: get_dashboard,
\* then the edit of the fetched document and put_dashboard.
Calls == {1, 2}
Other(p) == 3 - p

\* documents the calls may find: the deployed one and those with lines of A,
\* of B and of both
StartDashboards ==
    {InitialDashboard,
     AddBody(InitialDashboard, "A"),
     AddBody(InitialDashboard, "B"),
     AddBody(AddBody(InitialDashboard, "A"), "B")}

InitRace ==
    /\ dashboard \in StartDashboards
    /\ InitRest
    /\ InitTable
    /\ probe = NoProbe
    /\ pass = NoPass
    /\ http = NoHttp
    /\ inflight = NoUpdate
    /\ history = NoHistory

\* the one backend call of a step fails or not
StepFaultPlans == {F \in SUBSET {1} : Cardinality(F) <= MaxFaults}

raceFrame == <<alarms, lastRecord, calls, caught, status, created, streak,
               batch, idx, outcomes, detectors, lastOp,
               table, clock, stream, delivered, probe, pass, http, inflight,
               history>>

\* the handler is invoked for a name the other invocation is not about
Invoke(p, op, n) ==
    /\ race[p].pc = "idle"
    /\ race[Other(p)].name # n
    /\ race' = [race EXCEPT ![p] = [Idle EXCEPT !.op = op, !.name = n,
                                                !.pc = "invoked"]]
    /\ UNCHANGED <<dashboard, writes>>
    /\ UNCHANGED raceFrame

\* response = cloudwatch.get_dashboard(...); a failure ends the call (swallowed)
Fetch(p, F) ==
    /\ race[p].pc = "invoked"
    /\ LET g == get_dashboard(World(alarms, dashboard, <<>>), F,
                              race[p].name, race[p].op)
       IN  race' = [race EXCEPT ![p] =
                       IF g.exc # "none"
                       THEN [@ EXCEPT !.pc = "done", !.failed = TRUE]
                       ELSE [@ EXCEPT !.pc = "fetched", !.seen = writes,
                                      !.doc = g.w.calls[1].arg]]
    /\ UNCHANGED <<dashboard, writes>>
    /\ UNCHANGED raceFrame

\* variant: the edit is applied to the document as it is when writing
Write_current(p, F) ==
    /\ race[p].pc = "fetched"
    /\ LET n == race[p].name
           body == IF race[p].op = "add" THEN AddBody(dashboard, n)
                   ELSE RemoveBody(dashboard, n)
           puts == race[p].op = "add"
                   \/ SumRemoved(dashboard, n, Len(dashboard)) > 0
           r == put_dashboard(World(alarms, dashboard, <<>>), F, n, race[p].op, body)
       IN  IF ~puts
           THEN /\ race' = [race EXCEPT ![p].pc = "done"]
                /\ UNCHANGED <<dashboard, writes>>
           ELSE IF r.exc # "none"
           THEN /\ race' = [race EXCEPT ![p].pc = "done", ![p].failed = TRUE]
                /\ UNCHANGED <<dashboard, writes>>
           ELSE /\ dashboard' = r.w.dash
                /\ writes' = writes + 1
                /\ race' = [race EXCEPT ![p].pc = "done", ![p].wrote = writes + 1]
    /\ UNCHANGED raceFrame

\* the edit of the fetched document and cloudwatch.put_dashboard(...) of the
\* result (a removal that removed nothing does not put)
Write(p, F) ==
    /\ race[p].pc = "fetched"
    /\ LET n == race[p].name
           body == IF race[p].op = "add" THEN AddBody(race[p].doc, n)
                   ELSE RemoveBody(race[p].doc, n)
           puts == race[p].op = "add"
                   \/ SumRemoved(race[p].doc, n, Len(race[p].doc)) > 0
           r == put_dashboard(World(alarms, dashboard, <<>>), F, n, race[p].op, body)
       IN  IF ~puts
           THEN /\ race' = [race EXCEPT ![p].pc = "done"]
                /\ UNCHANGED <<dashboard, writes>>
           ELSE IF r.exc # "none"
           THEN /\ race' = [race EXCEPT ![p].pc = "done", ![p].failed = TRUE]
                /\ UNCHANGED <<dashboard, writes>>
           ELSE /\ dashboard' = r.w.dash
                /\ writes' = writes + 1
                /\ race' = [race EXCEPT ![p].pc = "done", ![p].wrote = writes + 1]
    /\ UNCHANGED raceFrame

InvokeAdd == \E p \in Calls, n \in Names : Invoke(p, "add", n)
InvokeRemove == \E p \in Calls, n \in Names : Invoke(p, "remove", n)
FetchStep == \E p \in Calls, F \in StepFaultPlans : Fetch(p, F)
WriteStep == \E p \in Calls, F \in StepFaultPlans : Write(p, F)

NextRace == InvokeAdd \/ InvokeRemove \/ FetchStep \/ WriteStep

SpecRace == InitRace /\ [][NextRace]_vars

\* ------------------------------------------- targets table and its stream
\* CRUDLambda writes the targets table; every write puts one record on the
\* table's stream; the Infrastructure Lambda is invoked with one record at a
\* time (batch_size=1), in any order of the records not yet delivered.
MaxWrites == 3   \* writes made to the targets table

\* the TargetId of the items in the table
TargetIds == {t.TargetId : t \in table}

\* create_target: put_item of a new item under a fresh TargetId (uuid4)
CreateTarget(n) ==
    /\ clock < MaxWrites
    /\ clock' = clock + 1
    /\ table' = table \cup {[TargetId |-> clock + 1, name |-> n]}
    /\ stream' = stream \cup {[seq |-> clock + 1, TargetId |-> clock + 1,
                               record |-> Record("INSERT", NoName, n)]}
    /\ UNCHANGED <<alarms, dashboard, lastRecord, calls, caught, status, created,
                   streak, batch, idx, outcomes, detectors, lastOp, race, writes,
                   delivered, probe, pass, http, inflight, history>>

\* delete_target: get_item finds the item, delete_item removes it
DeleteTarget(t) ==
    /\ clock < MaxWrites
    /\ t \in table
    /\ clock' = clock + 1
    /\ table' = table \ {t}
    /\ stream' = stream \cup {[seq |-> clock + 1, TargetId |-> t.TargetId,
                               record |-> Record("REMOVE", t.name, NoName)]}
    /\ UNCHANGED <<alarms, dashboard, lastRecord, calls, caught, status, created,
                   streak, batch, idx, outcomes, detectors, lastOp, race, writes,
                   delivered, probe, pass, http, inflight, history>>

\* what is kept of a handled record: faulted tells whether a backend call failed
Delivery(e, r) ==
    [seq |-> e.seq, TargetId |-> e.TargetId, record |-> e.record,
     caught |-> r.exc,
     faulted |-> \E i \in DOMAIN r.w.calls : r.w.calls[i].res # "ok"]

NoDelivery ==
    [seq |-> 0, TargetId |-> 0, record |-> NoRecord, caught |-> "none",
     faulted |-> FALSE]

\* variant: an INSERT record about an item that is no longer in the table is
\* skipped
DeliverOne_checked(e, F) ==
    LET skip == e.record.eventName = "INSERT" /\ e.TargetId \notin TargetIds
        rec == IF skip THEN NoRecord ELSE e.record
        FF == IF skip THEN {} ELSE F
    IN  /\ e \in stream
        /\ Adds(e.record) => HasRoom(dashboard)
        /\ Iteration(rec, FF)
        /\ status' = 200
        /\ stream' = stream \ {e}
        /\ delivered' =
               [last |-> Delivery(e, process_record(World(alarms, dashboard, <<>>),
                                                    rec, FF)),
                earlier |-> IF delivered.last = NoDelivery THEN delivered.earlier
                            ELSE delivered.earlier \cup {delivered.last}]
        /\ UNCHANGED <<batch, idx, outcomes, detectors, lastOp, race, writes,
                       table, clock, probe, pass, http, inflight>>

\* lambda_handler invoked with the one record e
DeliverOne(e, F) ==
    /\ e \in stream
    /\ Adds(e.record) => HasRoom(dashboard)
    /\ Iteration(e.record, F)
    /\ status' = 200
    /\ stream' = stream \ {e}
    /\ delivered' =
           [last |-> Delivery(e, process_record(World(alarms, dashboard, <<>>),
                                                e.record, F)),
            earlier |-> IF delivered.last = NoDelivery THEN delivered.earlier
                        ELSE delivered.earlier \cup {delivered.last}]
    /\ UNCHANGED <<batch, idx, outcomes, detectors, lastOp, race, writes,
                   table, clock, probe, pass, http, inflight>>

Create == \E n \in Names : CreateTarget(n)
Delete == \E t \in table : DeleteTarget(t)
DeliverRecord ==
    \E e \in stream : \E F \in FaultPlans(e.record) :
        DeliverOne(e, F) /\ UNCHANGED history

NextStream == Create \/ Delete \/ DeliverRecord

SpecStream == Init /\ [][NextStream]_vars

\* ------------------------------------------------- the lifecycle of targets
\* SpecLifecycle: targets are created enabled or disabled, renamed, enabled,
\* disabled and deleted; the records of the stream are delivered in any
\* order.  history keeps whether no two items of the table ever shared a name
\* and whether every record was delivered before all records written after it.
MaxEdits == 2   \* writes made to the targets table (SpecLifecycle)

UniqueNames(tbl) == \A x, y \in tbl : x.name = y.name => x = y

lifecycleFrame ==
    <<alarms, dashboard, lastRecord, calls, caught, status, created, streak,
      batch, idx, outcomes, detectors, lastOp, race, writes, delivered, probe,
      pass, http, inflight>>

\* create_target with body {name, url, enabled}: put_item of a new item
PutTarget(n, enabled) ==
    LET item == [TargetId |-> clock + 1, name |-> n, enabled |-> enabled]
    IN  /\ clock < MaxEdits
        /\ clock' = clock + 1
        /\ table' = table \cup {item}
        /\ stream' = stream \cup {[seq |-> clock + 1, TargetId |-> clock + 1,
                                   record |-> Record("INSERT", NoName, n)]}
        /\ history' = [history EXCEPT !.unique = @ /\ UniqueNames(table')]
        /\ UNCHANGED lifecycleFrame

\* update_target of item t with a body that sets name or enabled: the stream
\* record carries the old and the new image
EditTarget(t, n, enabled) ==
    /\ clock < MaxEdits
    /\ t \in table
    /\ <<n, enabled>> # <<t.name, t.enabled>>
    /\ clock' = clock + 1
    /\ table' = (table \ {t}) \cup {[t EXCEPT !.name = n, !.enabled = enabled]}
    /\ stream' = stream \cup {[seq |-> clock + 1, TargetId |-> t.TargetId,
                               record |-> Record("MODIFY", t.name, n)]}
    /\ history' = [history EXCEPT !.unique = @ /\ UniqueNames(table')]
    /\ UNCHANGED lifecycleFrame

\* delete_target of item t
RemoveTarget(t) ==
    /\ clock < MaxEdits
    /\ t \in table
    /\ clock' = clock + 1
    /\ table' = table \ {t}
    /\ stream' = stream \cup {[seq |-> clock + 1, TargetId |-> t.TargetId,
                               record |-> Record("REMOVE", t.name, NoName)]}
    /\ UNCHANGED history
    /\ UNCHANGED lifecycleFrame

\* lambda_handler invoked with the record e; the delivery is in order when no
\* record written before e is still to be delivered
DeliverTracked(e, F) ==
    /\ DeliverOne(e, F)
    /\ history' = [history EXCEPT
                      !.ordered = @ /\ \A x \in stream : e.seq <= x.seq]

Put == \E n \in Names, enabled \in BOOLEAN : PutTarget(n, enabled)
Edit == \E t \in table : \E n \in Names, enabled \in BOOLEAN : EditTarget(t, n, enabled)
Remove == \E t \in table : RemoveTarget(t)
DeliverAny == \E e \in stream : \E F \in FaultPlans(e.record) : DeliverTracked(e, F)

NextLifecycle == Put \/ Edit \/ Remove \/ DeliverAny

SpecLifecycle == Init /\ [][NextLifecycle]_vars

\* ------------------------------------------------------------ CRUD API
\* CRUDLambda.lambda_handler behind the API Gateway proxy integration.  A
\* value of a request body or of an item is a pair [t, v]: t is its Python
\* type and v its text.  The absent key of a dictionary is the value Absent.
Absent == [t |-> "absent", v |-> ""]
PyStr(x) == [t |-> "str", v |-> x]
PyInt(x) == [t |-> "int", v |-> x]
PyFloat(x) == [t |-> "float", v |-> x]
PyBool(x) == [t |-> "bool", v |-> x]

\* what Table.get_item / update_item (ALL_NEW) / scan read back for a value
\* written: a number comes back as a Decimal
ReadBack(x) == IF x.t = "int" THEN [t |-> "Decimal", v |-> x.v] ELSE x

\* Table.put_item and update_item raise TypeError on a float
Serializable(x) == x.t # "float"

\* json.dumps raises TypeError on a Decimal
Dumpable(x) == x.t # "Decimal"

Attributes == {"name", "url", "enabled"}

NoItem == [TargetId |-> 0]

\* the item under Key={'TargetId': target_id}, if any
ItemOf(tbl, target_id) ==
    IF \E item \in tbl : item.TargetId = target_id
    THEN CHOOSE item \in tbl : item.TargetId = target_id
    ELSE NoItem

success_response(data, status_code) == [statusCode |-> status_code, body |-> data]
error_response(status_code, message) ==
    [statusCode |-> status_code, body |-> [error |-> message]]

\* what an operation gives: the table after it and the response returned
Done(tbl, response) == [table |-> tbl, response |-> response]

\* list_targets: F names the store calls that fail, in the order issued
list_targets(tbl, F) ==
    IF 1 \in F THEN Done(tbl, error_response(500, "Failed to list targets"))
    ELSE IF \E item \in tbl : \E a \in Attributes : ~Dumpable(item[a])
    THEN Done(tbl, error_response(500, "Failed to list targets"))
    ELSE Done(tbl, success_response([targets |-> tbl, count |-> Cardinality(tbl)], 200))

get_target(tbl, target_id, F) ==
    IF 1 \in F THEN Done(tbl, error_response(500, "Failed to get target"))
    ELSE IF ItemOf(tbl, target_id) = NoItem
    THEN Done(tbl, error_response(404, "not found"))
    ELSE IF \E a \in Attributes : ~Dumpable(ItemOf(tbl, target_id)[a])
    THEN Done(tbl, error_response(500, "Failed to get target"))
    ELSE Done(tbl, success_response(ItemOf(tbl, target_id), 200))

\* variant: the required fields are not checked, a missing one is stored empty
create_target_unchecked(tbl, data, target_id, timestamp, F) ==
    LET item == [TargetId |-> target_id,
                 name |-> IF data.name = Absent THEN PyStr("") ELSE data.name,
                 url |-> IF data.url = Absent THEN PyStr("") ELSE data.url,
                 enabled |-> IF data.enabled = Absent THEN PyBool("true")
                             ELSE data.enabled,
                 created_at |-> timestamp, updated_at |-> timestamp]
        stored == [a \in DOMAIN item |->
                      IF a \in Attributes THEN ReadBack(item[a]) ELSE item[a]]
    IN  IF 1 \in F \/ \E a \in Attributes : ~Serializable(item[a])
        THEN Done(tbl, error_response(500, "Failed to create target"))
        ELSE Done(tbl \cup {stored}, success_response(item, 201))

\* create_target: target_id is str(uuid.uuid4()), timestamp utcnow()
create_target(tbl, data, target_id, timestamp, F) ==
    IF data.name = Absent \/ data.url = Absent
    THEN Done(tbl, error_response(400, "Missing required fields: name and url"))
    ELSE
    LET item == [TargetId |-> target_id,
                 name |-> data.name,
                 url |-> data.url,
                 enabled |-> IF data.enabled = Absent THEN PyBool("true")
                             ELSE data.enabled,
                 created_at |-> timestamp, updated_at |-> timestamp]
        stored == [a \in DOMAIN item |->
                      IF a \in Attributes THEN ReadBack(item[a]) ELSE item[a]]
    IN  IF 1 \in F \/ \E a \in Attributes : ~Serializable(item[a])
        THEN Done(tbl, error_response(500, "Failed to create target"))
        ELSE Done(tbl \cup {stored}, success_response(item, 201))

\* Table.update_item of "SET updated_at = :timestamp, ..." with the keys of
\* data: an item that is not there is brought into existence with the
\* attributes set
update_item(tbl, target_id, data, timestamp) ==
    LET old == IF ItemOf(tbl, target_id) = NoItem
               THEN [TargetId |-> target_id, name |-> Absent, url |-> Absent,
                     enabled |-> Absent, created_at |-> 0, updated_at |-> 0]
               ELSE ItemOf(tbl, target_id)
        new == [a \in DOMAIN old |->
                   IF a = "updated_at" THEN timestamp
                   ELSE IF a \in Attributes /\ data[a] # Absent
                   THEN ReadBack(data[a])
                   ELSE old[a]]
    IN  (tbl \ {old}) \cup {new}

\* update_target once get_item has found the item: the update expression is
\* built and update_item is issued against the table as it is by then
update_target_write(tbl, target_id, data, timestamp, F) ==
    IF data.name = Absent /\ data.url = Absent
    THEN Done(tbl, error_response(500, "Failed to update target"))
    ELSE IF 2 \in F \/ \E a \in Attributes : ~Serializable(data[a])
    THEN Done(tbl, error_response(500, "Failed to update target"))
    ELSE LET new == update_item(tbl, target_id, data, timestamp)
         IN  IF \E a \in Attributes : ~Dumpable(ItemOf(new, target_id)[a])
             THEN Done(new, error_response(500, "Failed to update target"))
             ELSE Done(new, success_response(ItemOf(new, target_id), 200))

\* update_target: get_item, then update_item with
\* ExpressionAttributeNames=None when data has neither name nor url, which
\* the client rejects before any request is sent
update_target(tbl, target_id, data, timestamp, F) ==
    IF 1 \in F THEN Done(tbl, error_response(500, "Failed to update target"))
    ELSE IF ItemOf(tbl, target_id) = NoItem
    THEN Done(tbl, error_response(404, "not found"))
    ELSE update_target_write(tbl, target_id, data, timestamp, F)

\* variant: delete_item is issued without looking the item up
delete_target_blind(tbl, target_id, F) ==
    IF 1 \in F THEN Done(tbl, error_response(500, "Failed to delete target"))
    ELSE Done(tbl \ {ItemOf(tbl, target_id)},
              success_response([message |-> "deleted"], 200))

\* delete_target: get_item, then delete_item
delete_target(tbl, target_id, F) ==
    IF 1 \in F THEN Done(tbl, error_response(500, "Failed to delete target"))
    ELSE IF ItemOf(tbl, target_id) = NoItem
    THEN Done(tbl, error_response(404, "not found"))
    ELSE IF 2 \in F
    THEN Done(tbl, error_response(500, "Failed to delete target"))
    ELSE Done(tbl \ {ItemOf(tbl, target_id)},
              success_response([message |-> "deleted"], 200))

\* an event of the proxy integration: path is "/targets", "/targets/{id}" or
\* another; id is pathParameters['id'] (0: none); body is the parsed JSON body
\* or Invalid when json.loads raises
Invalid == [name |-> Absent, url |-> Absent, enabled |-> Absent, json |-> FALSE]
Body(name, url, enabled) ==
    [name |-> name, url |-> url, enabled |-> enabled, json |-> TRUE]
Event(httpMethod, path, id, body) ==
    [httpMethod |-> httpMethod, path |-> path, id |-> id, body |-> body]

\* CRUDLambda.lambda_handler
crud_handler(tbl, event, target_id, timestamp, F) ==
    IF event.path = "/targets" /\ event.httpMethod = "GET"
    THEN list_targets(tbl, F)
    ELSE IF event.path = "/targets" /\ event.httpMethod = "POST"
    THEN IF ~event.body.json THEN Done(tbl, error_response(500, "Internal error"))
         ELSE create_target(tbl, event.body, target_id, timestamp, F)
    ELSE IF event.path = "/targets/{id}" /\ event.id = 0
    THEN Done(tbl, error_response(400, "Missing target ID"))
    ELSE IF event.path = "/targets/{id}" /\ event.httpMethod = "GET"
    THEN get_target(tbl, event.id, F)
    ELSE IF event.path = "/targets/{id}" /\ event.httpMethod = "PUT"
    THEN IF ~event.body.json THEN Done(tbl, error_response(500, "Internal error"))
         ELSE update_target(tbl, event.id, event.body, timestamp, F)
    ELSE IF event.path = "/targets/{id}" /\ event.httpMethod = "DELETE"
    THEN delete_target(tbl, event.id, F)
    ELSE Done(tbl, error_response(404, "Route not found"))

\* SpecCrud: requests handled one after the other.  clock counts the writes
\* made to the table; the TargetId and the timestamp of a write are clock + 1.
MaxApiWrites == 2   \* writes made to the targets table (SpecCrud)

Bodies ==
    {Body(Absent, Absent, Absent),
     Body(PyStr("A"), Absent, Absent),
     Body(PyStr("B"), Absent, Absent),
     Body(PyInt("5"), Absent, Absent),
     Body(Absent, PyStr("u"), Absent),
     Body(Absent, Absent, PyBool("false")),
     Body(PyStr("A"), PyStr("u"), Absent),
     Body(PyInt("5"), PyStr("u"), Absent),
     Body(PyStr("A"), PyStr("u"), PyBool("false")),
     Body(PyStr("A"), PyStr("u"), PyFloat("0.5"))}

Ids == 1..MaxApiWrites

\* the store calls a route can make: get_item and then update_item or
\* delete_item, one call for the other routes, none when no route matches
StoreCalls(event) ==
    IF event.path = "/targets" /\ event.httpMethod \in {"GET", "POST"} THEN 1
    ELSE IF event.path = "/targets/{id}" /\ event.id # 0
    THEN IF event.httpMethod = "GET" THEN 1
         ELSE IF event.httpMethod \in {"PUT", "DELETE"} THEN 2
         ELSE 0
    ELSE 0

StoreFaultPlans(event) ==
    {F \in SUBSET (1..StoreCalls(event)) : Cardinality(F) <= MaxFaults}

Request(event, F) ==
    LET r == crud_handler(table, event, clock + 1, clock + 1, F)
    IN  /\ r.table # table => clock < MaxApiWrites
        /\ table' = r.table
        /\ clock' = IF r.table # table THEN clock + 1 ELSE clock
        /\ http' = [request |-> event, response |-> r.response, faults |-> F]
        /\ UNCHANGED reconcilerVars
        /\ UNCHANGED <<lastOp, race, writes, stream, delivered, probe, pass,
                       inflight, history>>

\* the events of the five routes
ListEvents == {Event("GET", "/targets", 0, Invalid)}
PostEvents == {Event("POST", "/targets", 0, body) : body \in Bodies \cup {Invalid}}
GetEvents == {Event("GET", "/targets/{id}", id, Invalid) : id \in Ids}
PutEvents ==
    {Event("PUT", "/targets/{id}", id, body) : id \in Ids, body \in Bodies \cup {Invalid}}
DeleteEvents == {Event("DELETE", "/targets/{id}", id, Invalid) : id \in Ids}

\* a method no route has, a path no route has, a path under /targets/ with no
\* id parameter
OtherEvents ==
    {Event("PATCH", "/targets", 0, Invalid),
     Event("PUT", "/targets", 0, Invalid),
     Event("POST", "/targets/{id}", 1, Invalid),
     Event("GET", "/health", 0, Invalid),
     Event("GET", "/targets/{id}", 0, Invalid),
     Event("PATCH", "/targets/{id}", 0, Invalid)}

ListRequest == \E e \in ListEvents : \E F \in StoreFaultPlans(e) : Request(e, F)
PostRequest == \E e \in PostEvents : \E F \in StoreFaultPlans(e) : Request(e, F)
GetRequest == \E e \in GetEvents : \E F \in StoreFaultPlans(e) : Request(e, F)
PutRequest == \E e \in PutEvents : \E F \in StoreFaultPlans(e) : Request(e, F)
DeleteRequest == \E e \in DeleteEvents : \E F \in StoreFaultPlans(e) : Request(e, F)
OtherRequest == \E e \in OtherEvents : \E F \in StoreFaultPlans(e) : Request(e, F)

NextCrud == ListRequest \/ PostRequest \/ GetRequest \/ PutRequest
            \/ DeleteRequest \/ OtherRequest

SpecCrud == Init /\ [][NextCrud]_vars

\* SpecCrudRace: an invocation of update_target taken at its two store calls,
\* with the requests of other invocations handled between them.
crudRaceFrame ==
    <<lastOp, race, writes, stream, delivered, probe, pass, history>>

\* the PUT requests whose body json.loads accepts
UpdateEvents == {e \in PutEvents : e.body.json}

\* update_target up to "if 'Item' not in response": get_item fails (500),
\* finds nothing (404), or finds the item and the call goes on
UpdateCheck(event, F) ==
    LET r == update_target(table, event.id, event.body, clock + 1, F)
        found == 1 \notin F /\ ItemOf(table, event.id) # NoItem
    IN  /\ inflight.pc \in {"idle", "done"}
        /\ clock < MaxApiWrites
        /\ inflight' = IF found THEN [pc |-> "checked", request |-> event]
                       ELSE [pc |-> "done", request |-> event]
        /\ http' = IF found THEN http
                   ELSE [request |-> event, response |-> r.response, faults |-> F]
        /\ UNCHANGED <<table, clock>>
        /\ UNCHANGED reconcilerVars
        /\ UNCHANGED crudRaceFrame

\* the rest of update_target, against the table as it is now
UpdateWrite(F) ==
    LET event == inflight.request
        r == update_target_write(table, event.id, event.body, clock + 1, F)
    IN  /\ inflight.pc = "checked"
        /\ table' = r.table
        /\ clock' = IF r.table # table THEN clock + 1 ELSE clock
        /\ inflight' = [pc |-> "done", request |-> event]
        /\ http' = [request |-> event, response |-> r.response, faults |-> F]
        /\ UNCHANGED reconcilerVars
        /\ UNCHANGED crudRaceFrame

UpdateChecks == \E e \in UpdateEvents : \E F \in SUBSET {1} : UpdateCheck(e, F)
UpdateWrites == \E F \in SUBSET {2} : UpdateWrite(F)

NextCrudRace == PostRequest \/ DeleteRequest \/ UpdateChecks \/ UpdateWrites

SpecCrudRace == Init /\ [][NextCrudRace]_vars

\* ------------------------------------------------------- Health Prober
\* MonitoringLambda.monitor_website.  Times are readings of time.time() in
\* ticks of 0.0025 ms; latency_ms is kept in hundredths of a millisecond and
\* throughput_bps in hundredths of a byte per second, the two decimals round()
\* keeps.  An absent value (None) is the empty sequence, a present one <<v>>.
MaxTicks == 8   \* longest request duration, in ticks
MaxSize  == 3   \* longest response body, in bytes

None == <<>>
Some(v) == <<v>>

\* round(n / d) to the nearest integer, ties to the even one (Python round)
RoundHalfEven(n, d) ==
    LET q == n \div d
        r == n % d
    IN  IF 2 * r < d THEN q
        ELSE IF 2 * r > d THEN q + 1
        ELSE IF q % 2 = 0 THEN q ELSE q + 1

\* what the outbound request does: urlopen returns a response (raised is
\* "none") or an exception of class raised leaves the try body
StatusCodes == {200, 204}
ErrorCodes == {404, 500}
Failures == {"URLError", "timeout", "ValueError"}

Net(raised, code, start_time, end_time, timestamp, size) ==
    [raised |-> raised, code |-> code, start_time |-> start_time,
     end_time |-> end_time, timestamp |-> timestamp, size |-> size]

\* start_time <= end_time <= timestamp: successive readings of the clock
Nets ==
    {Net("none", c, 0, d, d + g, s) :
        c \in StatusCodes, d \in 0..MaxTicks, g \in {0, 1}, s \in 0..MaxSize}
    \cup {Net("HTTPError", c, 0, d, d + g, 0) :
        c \in ErrorCodes, d \in 0..MaxTicks, g \in {0, 1}}
    \cup {Net(f, 0, 0, d, d, 0) : f \in Failures, d \in {0, MaxTicks}}

NoResult == [success |-> FALSE]

\* latency_ms = round((end_time - start_time) * 1000, 2)
LatencyMs(net) == RoundHalfEven(net.end_time - net.start_time, 4)

\* variant: the latency is not converted to seconds
ThroughputBps_per_ms(response_size_bytes, latency_ms) ==
    IF latency_ms > 0
    THEN RoundHalfEven(response_size_bytes * 10000, latency_ms)
    ELSE 0

\* round(response_size_bytes / (latency_ms / 1000), 2) if latency_ms > 0 else 0
ThroughputBps(response_size_bytes, latency_ms) ==
    IF latency_ms > 0
    THEN RoundHalfEven(response_size_bytes * 10000000, latency_ms)
    ELSE 0

\* variant: no handler of its own for HTTPError, a subclass of Exception
monitor_website_one_handler(website_name, target_url, net) ==
    IF net.raised = "none"
    THEN [exc |-> "none",
          result |-> [website_name |-> website_name, url |-> target_url,
                      availability |-> IF net.code = 200 THEN 1 ELSE 0,
                      latency_ms |-> Some(LatencyMs(net)),
                      throughput_bps |-> ThroughputBps(net.size, LatencyMs(net)),
                      response_size_bytes |-> net.size,
                      status_code |-> net.code,
                      timestamp |-> net.timestamp,
                      success |-> TRUE]]
    ELSE [exc |-> "none",
          result |-> [website_name |-> website_name, url |-> target_url,
                      availability |-> 0,
                      latency_ms |-> None,
                      throughput_bps |-> 0,
                      error |-> <<net.raised>>,
                      timestamp |-> net.timestamp,
                      success |-> FALSE]]

\* variant: only HTTPError and URLError are caught
monitor_website_urlerror(website_name, target_url, net) ==
    IF net.raised = "none"
    THEN [exc |-> "none",
          result |-> [website_name |-> website_name, url |-> target_url,
                      availability |-> IF net.code = 200 THEN 1 ELSE 0,
                      latency_ms |-> Some(LatencyMs(net)),
                      throughput_bps |-> ThroughputBps(net.size, LatencyMs(net)),
                      response_size_bytes |-> net.size,
                      status_code |-> net.code,
                      timestamp |-> net.timestamp,
                      success |-> TRUE]]
    ELSE IF net.raised = "HTTPError"
    THEN [exc |-> "none",
          result |-> [website_name |-> website_name, url |-> target_url,
                      availability |-> 0,
                      latency_ms |-> Some(LatencyMs(net)),
                      throughput_bps |-> 0,
                      status_code |-> net.code,
                      error |-> <<"HTTP", net.code>>,
                      timestamp |-> net.timestamp,
                      success |-> FALSE]]
    ELSE IF net.raised = "URLError"
    THEN [exc |-> "none",
          result |-> [website_name |-> website_name, url |-> target_url,
                      availability |-> 0,
                      latency_ms |-> None,
                      throughput_bps |-> 0,
                      error |-> <<net.raised>>,
                      timestamp |-> net.timestamp,
                      success |-> FALSE]]
    ELSE [exc |-> net.raised, result |-> NoResult]

\* the value returned, and the exception that leaves the function ("none":
\* none does).  try: the response branch; except HTTPError; except Exception,
\* which every other class of exception reaches
monitor_website(website_name, target_url, net) ==
    IF net.raised = "none"
    THEN [exc |-> "none",
          result |-> [website_name |-> website_name, url |-> target_url,
                      availability |-> IF net.code = 200 THEN 1 ELSE 0,
                      latency_ms |-> Some(LatencyMs(net)),
                      throughput_bps |-> ThroughputBps(net.size, LatencyMs(net)),
                      response_size_bytes |-> net.size,
                      status_code |-> net.code,
                      timestamp |-> net.timestamp,
                      success |-> TRUE]]
    ELSE IF net.raised = "HTTPError"
    THEN [exc |-> "none",
          result |-> [website_name |-> website_name, url |-> target_url,
                      availability |-> 0,
                      latency_ms |-> Some(LatencyMs(net)),
                      throughput_bps |-> 0,
                      status_code |-> net.code,
                      error |-> <<"HTTP", net.code>>,
                      timestamp |-> net.timestamp,
                      success |-> FALSE]]
    ELSE [exc |-> "none",
          result |-> [website_name |-> website_name, url |-> target_url,
                      availability |-> 0,
                      latency_ms |-> None,
                      throughput_bps |-> 0,
                      error |-> <<net.raised>>,
                      timestamp |-> net.timestamp,
                      success |-> FALSE]]

\* SpecProbe: one call of monitor_website on every behaviour of the request
NoReturn == [exc |-> "pending", result |-> NoResult]

URL(website_name) == <<"https", website_name>>

InitProbe ==
    /\ dashboard = InitialDashboard
    /\ InitRest
    /\ InitTable
    /\ pass = NoPass
    /\ http = NoHttp
    /\ inflight = NoUpdate
    /\ history = NoHistory
    /\ probe \in {[website_name |-> n, net |-> net, ret |-> NoReturn] :
                     n \in {"A"}, net \in Nets}

Probe ==
    /\ probe.ret = NoReturn
    /\ probe' = [probe EXCEPT !.ret =
                    monitor_website(probe.website_name, URL(probe.website_name),
                                    probe.net)]
    /\ UNCHANGED reconcilerVars
    /\ UNCHANGED <<lastOp, race, writes, pass, http, inflight, history>>
    /\ UNCHANGED streamVars

NextProbe == Probe

SpecProbe == InitProbe /\ [][NextProbe]_vars

\* ------------------------------------------------------- Metric Emitter
\* a metric is identified by <<Namespace, MetricName, dimension Name, Value>>

\* variant: the namespace and the dimension key of the earlier crawler
\* (modules/cloudWatchLambda.py, send_metrics)
send_metrics_to_cloudwatch_crawler(website_name, has_latency) ==
    << <<"WebCrawler/Monitoring", "Availability", "WebsiteName", website_name>> >>
    \o (IF has_latency
        THEN << <<"WebCrawler/Monitoring", "Latency", "WebsiteName", website_name>> >>
        ELSE <<>>)
    \o << <<"WebCrawler/Monitoring", "Throughput", "WebsiteName", website_name>> >>

\* MonitoringLambda.send_metrics_to_cloudwatch: metric_data as put by
\* put_metric_data(Namespace=METRIC_NAMESPACE, ...); the Latency point is left
\* out when result["latency_ms"] is None
send_metrics_to_cloudwatch(website_name, has_latency) ==
    << <<METRIC_NAMESPACE, METRIC_AVAILABILITY, DIM_WEBSITE, website_name>> >>
    \o (IF has_latency
        THEN << <<METRIC_NAMESPACE, METRIC_LATENCY, DIM_WEBSITE, website_name>> >>
        ELSE <<>>)
    \o << <<METRIC_NAMESPACE, METRIC_THROUGHPUT, DIM_WEBSITE, website_name>> >>

\* the metric the alarm f"{website_name}-{metric}-Alarm" is put on:
\* Namespace / MetricName / Dimensions of put_metric_alarm
AlarmMetric(website_name, metric) ==
    <<METRIC_NAMESPACE, metric, DIM_WEBSITE, website_name>>

\* variant: the points are stamped when they are sent, after the probe
MetricData_sent_at(result) ==
    LET keys == send_metrics_to_cloudwatch(result.website_name,
                                           result.latency_ms # None)
        values == <<result.availability>>
                  \o result.latency_ms
                  \o <<result.throughput_bps>>
    IN  [i \in DOMAIN keys |->
            [Namespace |-> keys[i][1], MetricName |-> keys[i][2],
             Dimensions |-> << <<keys[i][3], keys[i][4]>> >>,
             Value |-> values[i], Timestamp |-> result.timestamp + 1]]

\* the points of one result: the keys of send_metrics_to_cloudwatch, each with
\* its Value and the Timestamp result["timestamp"]
MetricData(result) ==
    LET keys == send_metrics_to_cloudwatch(result.website_name,
                                           result.latency_ms # None)
        values == <<result.availability>>
                  \o result.latency_ms
                  \o <<result.throughput_bps>>
    IN  [i \in DOMAIN keys |->
            [Namespace |-> keys[i][1], MetricName |-> keys[i][2],
             Dimensions |-> << <<keys[i][3], keys[i][4]>> >>,
             Value |-> values[i], Timestamp |-> result.timestamp]]

\* for i in range(0, len(metric_data), 20): batch = metric_data[i:i+20]
PutBatch == 20

NumBatches(metric_data) == (Len(metric_data) + PutBatch - 1) \div PutBatch

BatchAt(metric_data, k) ==
    SubSeq(metric_data, PutBatch * (k - 1) + 1,
           IF PutBatch * k < Len(metric_data) THEN PutBatch * k
           ELSE Len(metric_data))

\* the call put_metric_data(Namespace=METRIC_NAMESPACE, MetricData=batch)
PutCall(batch_, res) ==
    [op |-> "put_metric_data", Namespace |-> METRIC_NAMESPACE,
     MetricData |-> batch_, res |-> res]

\* the calls of the batch loop when the backend rejects the calls numbered in
\* F: the loop ends at the first rejected call
PutCalls(metric_data, F) ==
    LET n == NumBatches(metric_data)
        stop == IF F \cap (1..n) = {} THEN n
                ELSE CHOOSE k \in F \cap (1..n) : \A j \in F \cap (1..n) : k <= j
    IN  [k \in 1..stop |->
            PutCall(BatchAt(metric_data, k), IF k \in F THEN "error" ELSE "ok")]

\* variant: a rejected put_metric_data is not caught
SendMetrics_raise(puts, result, F) ==
    LET new == PutCalls(MetricData(result), F)
    IN  [puts |-> puts \o new,
         exc |-> IF \E k \in DOMAIN new : new[k].res = "error"
                 THEN "error" ELSE "none"]

\* send_metrics_to_cloudwatch(cloudwatch, result) with its backend calls:
\* puts is the log of the calls made so far; except Exception only prints
SendMetrics(puts, result, F) ==
    LET new == PutCalls(MetricData(result), F)
    IN  [puts |-> puts \o new, exc |-> "none"]

\* ------------------------------------------------------ Monitoring pass
\* MonitoringLambda.lambda_handler: the enabled targets are read with one scan,
\* then probed and emitted one after the other.
MaxTargets == 3   \* items in the targets table (SpecMonitor)

\* the item of TargetId i
Item(i, enabled) ==
    [TargetId |-> i, name |-> IF i % 2 = 1 THEN "A" ELSE "B",
     url |-> <<"https", i>>, enabled |-> enabled]

\* the item without its name, or without its url
Lacking(item, key) ==
    IF key = "name" THEN [item EXCEPT !.name = NoName]
    ELSE [item EXCEPT !.url = <<>>]

\* item['name'] and item['url'] both succeed
HasKeys(item) == item.name # NoName /\ item.url # <<>>

\* tables of items that create_target wrote
CreatedTables ==
    UNION {{{Item(i, e[i]) : i \in 1..n} : e \in [1..n -> BOOLEAN]} :
             n \in 0..MaxTargets}

\* the tables of a pass: those of created items, and those in which the item
\* of TargetId 1 lacks a key (an item update_item brought into existence)
Tables ==
    CreatedTables \cup
    {(T \ {x}) \cup {Lacking(x, key)} :
         <<T, x, key>> \in {c \in CreatedTables \X {Item(1, TRUE), Item(1, FALSE)}
                                     \X {"name", "url"} : c[2] \in c[1]}}

\* the orders a scan can return the items of a set in
Orders(S) ==
    {s \in [1..Cardinality(S) -> S] : \A i, j \in DOMAIN s : s[i] = s[j] => i = j}

IsEnabled(item) == item.enabled

\* variant: the scan has no FilterExpression
get_targets_from_dynamodb_unfiltered(items, scan) ==
    IF scan = "ok"
    THEN [i \in DOMAIN items |-> [name |-> items[i].name, url |-> items[i].url]]
    ELSE <<>>

\* variant: an item without name or url is left out of the list
get_targets_from_dynamodb_skipping(items, scan) ==
    IF scan = "ok"
    THEN LET found == SelectSeq(SelectSeq(items, IsEnabled), HasKeys)
         IN  [i \in DOMAIN found |-> [name |-> found[i].name, url |-> found[i].url]]
    ELSE <<>>

\* get_targets_from_dynamodb: items is the table in the order of the scan;
\* scan is "unset" when TARGETS_TABLE_NAME is not set, "error" when the scan
\* raises, else "ok".  The KeyError of item['name'] or item['url'] for a
\* returned item is caught by the same except, which returns []
get_targets_from_dynamodb(items, scan) ==
    IF scan = "ok"
    THEN LET found == SelectSeq(items, IsEnabled)
         IN  IF \E i \in DOMAIN found : ~HasKeys(found[i]) THEN <<>>
             ELSE [i \in DOMAIN found |->
                      [name |-> found[i].name, url |-> found[i].url]]
    ELSE <<>>

\* how the try block of get_targets_from_dynamodb ended
ReadOutcome(items, scan) ==
    IF scan # "ok" THEN scan
    ELSE IF \E i \in DOMAIN items : IsEnabled(items[i]) /\ ~HasKeys(items[i])
    THEN "KeyError"
    ELSE "ok"

\* what the requests of a pass do: a 200, an HTTP error, a timeout
PassNets(now) ==
    {Net("none", 200, now, now + MaxTicks, now + MaxTicks, MaxSize),
     Net("HTTPError", 500, now, now + MaxTicks, now + MaxTicks, 0),
     Net("timeout", 0, now, now + MaxTicks, now + MaxTicks, 0)}

InitMonitor ==
    /\ dashboard = InitialDashboard
    /\ InitRest
    /\ table \in Tables
    /\ probe = NoProbe
    /\ pass = NoPass
    /\ http = NoHttp
    /\ inflight = NoUpdate
    /\ history = NoHistory

monitorFrame ==
    <<alarms, dashboard, lastRecord, calls, caught, status, created, streak,
      batch, idx, outcomes, detectors, lastOp, race, writes,
      table, clock, stream, delivered, probe, http, inflight, history>>

\* lambda_handler up to the loop: targets = get_targets_from_dynamodb();
\* if not targets: return statusCode 200 with no results
Invoke_pass(items, scan) ==
    LET targets == get_targets_from_dynamodb(items, scan)
    IN  /\ pass.pc = "idle"
        /\ pass' = [pc |-> IF targets = <<>> THEN "returned" ELSE "loop",
                    scan |-> scan,
                    read |-> ReadOutcome(items, scan),
                    items |-> items,
                    targets |-> targets,
                    all_results |-> <<>>,
                    puts |-> <<>>,
                    rejected |-> {},
                    now |-> 0,
                    statusCode |-> IF targets = <<>> THEN 200 ELSE 0]
        /\ UNCHANGED monitorFrame

\* one iteration of "for website in targets": monitor_website, append,
\* send_metrics_to_cloudwatch; an exception leaving either ends the handler
Monitor_one(net, F) ==
    /\ pass.pc = "loop"
    /\ Len(pass.all_results) < Len(pass.targets)
    /\ LET website == pass.targets[Len(pass.all_results) + 1]
           r == monitor_website(website.name, website.url, net)
           s == SendMetrics(pass.puts, r.result, F)
       IN  pass' =
             IF r.exc # "none"
             THEN [pass EXCEPT !.pc = "raised"]
             ELSE [pass EXCEPT
                     !.all_results = Append(@, r.result),
                     !.puts = s.puts,
                     !.rejected = IF F = {} THEN @
                                  ELSE @ \cup {Len(pass.all_results) + 1},
                     !.now = net.timestamp + 1,
                     !.pc = IF s.exc # "none" THEN "raised" ELSE "loop"]
    /\ UNCHANGED monitorFrame

\* the return after the loop
Return_pass ==
    /\ pass.pc = "loop"
    /\ Len(pass.all_results) = Len(pass.targets)
    /\ pass' = [pass EXCEPT !.pc = "returned", !.statusCode = 200]
    /\ UNCHANGED monitorFrame

InvokePass == \E items \in Orders(table) : \E scan \in {"ok", "error", "unset"} :
                  Invoke_pass(items, scan)
MonitorNext == /\ pass.pc = "loop"
               /\ \E net \in PassNets(pass.now) : \E F \in SUBSET {1} :
                      Monitor_one(net, F)

NextMonitor == InvokePass \/ MonitorNext \/ Return_pass

SpecMonitor == InitMonitor /\ [][NextMonitor]_vars

\* ============================================================ properties
Metrics == {METRIC_AVAILABILITY, METRIC_LATENCY, METRIC_THROUGHPUT}
DashboardOps == {"get_dashboard", "put_dashboard"}

AlarmsOf(n) == {a \in alarms : a[1] = n}
ThreeAlarms(n) == {AlarmName(n, m) : m \in Metrics}

CallsOf(ops, n) == {i \in DOMAIN calls : calls[i].op \in ops /\ calls[i].site = n}
AllCallsOk == \A i \in DOMAIN calls : calls[i].res = "ok"
AlarmCallsOk ==
    \A i \in DOMAIN calls :
        calls[i].op \in {"delete_alarms", "put_metric_alarm"} => calls[i].res = "ok"

IsRename(record) == record.eventName = "MODIFY" /\ record.OldImage # record.NewImage

\* C1: handling Added(name) issues the three alarm creations before any
\* dashboard call for name; when a creation fails, the failure leaves the
\* Added handling (it is what the loop catches) and no dashboard read or
\* write is issued for name; otherwise the dashboard is read for name after
\* the three creations.
C1_AlarmsGateDashboard ==
    Adds(lastRecord) =>
        LET n == lastRecord.NewImage
            creates == CallsOf({"put_metric_alarm"}, n)
            dash == CallsOf(DashboardOps, n)
            failed == \E i \in creates : calls[i].res # "ok"
        IN  /\ \A i \in creates, j \in dash : i < j
            /\ dash # {} =>
                   \A m \in Metrics : \E i \in creates :
                       calls[i].arg = AlarmName(n, m) /\ calls[i].res = "ok"
            /\ failed => caught # "none" /\ dash = {}
            /\ ~failed => caught = "none" /\ dash # {}

C1_Witness ==
    /\ lastRecord.eventName = "INSERT"
    /\ Len(calls) = 2
    /\ calls[1].res = "ok"
    /\ calls[2].res = "error"
    /\ caught = "error"

\* C2: handling Removed(name) always attempts the dashboard removal for name
\* (it at least reads the dashboard for name), whether the deletion call for
\* the alarms of name succeeded or failed.
C2_RemoveAlwaysReachesDashboard ==
    lastRecord.eventName = "REMOVE" =>
        \E i \in CallsOf({"get_dashboard"}, lastRecord.OldImage) :
            calls[i].caller = "remove"

\* C3: the records of a delivered batch are taken one at a time in delivery
\* order, and when lambda_handler returns every record of the batch has been
\* taken, whatever was caught for the records before it.
C3_BatchInOrderAndIsolated ==
    /\ idx = Len(outcomes)
    /\ Len(outcomes) <= Len(batch)
    /\ \A k \in DOMAIN outcomes : outcomes[k].record = batch[k]
    /\ (batch # <<>> /\ status = 200) => Len(outcomes) = Len(batch)

C3_Witness ==
    /\ status = 200
    /\ Len(batch) = 2
    /\ Len(outcomes) = 2
    /\ outcomes[1].caught # "none"
    /\ outcomes[2].record.eventName = "INSERT"
    /\ outcomes[2].caught = "none"
    /\ AlarmsOf(outcomes[2].record.NewImage) = ThreeAlarms(outcomes[2].record.NewImage)

\* C4: every name whose creation has succeeded, with no deletion call made for
\* it since, has exactly its three alarms {name}-Availability-Alarm,
\* {name}-Latency-Alarm and {name}-Throughput-Alarm in the backend.
C4_ExactlyThreeAlarms ==
    \A n \in created :
        /\ ThreeAlarms(n) \subseteq alarms
        /\ Cardinality(AlarmsOf(n)) = 3

C4_Witness ==
    /\ "A" \in created
    /\ lastRecord = Record("REMOVE", "B", NoName)
    /\ calls[1].res = "ok"
    /\ calls[1].arg # {}

RemoveFetched ==
    LET g == {i \in DOMAIN calls : calls[i].op = "get_dashboard"
                                   /\ calls[i].caller = "remove"
                                   /\ calls[i].res = "ok"}
    IN  IF g = {} THEN <<>> ELSE calls[CHOOSE i \in g : TRUE].arg

\* every line of the widget is a line of name, and there is one
HoldsOnly(widget, n) ==
    /\ widget.metrics # <<>>
    /\ \A k \in DOMAIN widget.metrics : HasDimensionValue(widget.metrics[k], n)

\* C7: after the dashboard removal for name has handled an aggregate widget
\* whose lines were all lines of name (the last remaining target), the widget
\* holds exactly one line and that line is the placeholder.
C7_PlaceholderAfterLastRemoved ==
    (lastRecord.eventName = "REMOVE" /\ AllCallsOk /\ RemoveFetched # <<>>) =>
        \A k \in DOMAIN RemoveFetched :
            (/\ RemoveFetched[k].title \in AggregateTitles
             /\ HoldsOnly(RemoveFetched[k], lastRecord.OldImage)) =>
                /\ Len(dashboard[k].metrics) = 1
                /\ HasDimensionValue(dashboard[k].metrics[1], PLACEHOLDER)

\* C8: after a dashboard removal for name in which no backend call failed, no
\* aggregate widget holds a line whose dimension value is name.
C8_RemovedNameGone ==
    (lastRecord.eventName = "REMOVE" /\ AllCallsOk /\ RemoveFetched # <<>>) =>
        \A k \in DOMAIN dashboard :
            dashboard[k].title \in AggregateTitles =>
                \A j \in DOMAIN dashboard[k].metrics :
                    ~HasDimensionValue(dashboard[k].metrics[j], lastRecord.OldImage)

\* the metric an aggregate widget shows, by its title
MetricOfTitle(title) ==
    CASE title = TITLE_AVAILABILITY -> METRIC_AVAILABILITY
      [] title = TITLE_LATENCY      -> METRIC_LATENCY
      [] title = TITLE_THROUGHPUT   -> METRIC_THROUGHPUT

AddGets == {i \in DOMAIN calls : calls[i].op = "get_dashboard" /\ calls[i].caller = "add"}
AddPuts == {i \in DOMAIN calls : calls[i].op = "put_dashboard" /\ calls[i].caller = "add"}

\* C9: the dashboard addition for name reads the document once and, having
\* read it, writes one whole document back, once: the document read, in which
\* each of the three aggregate widgets has lost every placeholder line and has
\* gained one line for name as its last line.
C9_AddAppendsOneLine ==
    Adds(lastRecord) =>
        /\ Cardinality(AddGets) <= 1
        /\ \A g \in AddGets :
               calls[g].res = "ok" =>
                   /\ AddPuts = {g + 1}
                   /\ LET n == lastRecord.NewImage
                          old == calls[g].arg
                          new == calls[g + 1].arg
                      IN  /\ Len(new) = Len(old)
                          /\ Cardinality({k \in DOMAIN old :
                                             old[k].title \in AggregateTitles}) = 3
                          /\ \A k \in DOMAIN old :
                                 old[k].title \in AggregateTitles =>
                                     /\ new[k].title = old[k].title
                                     /\ new[k].metrics =
                                            SelectSeq(old[k].metrics,
                                                      LAMBDA m : m[4] # PLACEHOLDER)
                                            \o << <<METRIC_NAMESPACE,
                                                    MetricOfTitle(old[k].title),
                                                    DIM_WEBSITE, n, [label |-> n]>> >>
                          /\ calls[g + 1].res = "ok" => dashboard = new

C9_Witness ==
    /\ lastRecord.eventName = "INSERT"
    /\ Len(calls) = 5
    /\ AllCallsOk
    /\ Len(calls[4].arg[5].metrics) = 2
    /\ calls[4].arg[5].metrics[1][4] # PLACEHOLDER
    /\ Len(dashboard[5].metrics) = 3

SameFrame(new, old) ==
    /\ Len(new) = Len(old)
    /\ \A k \in DOMAIN old :
           /\ new[k].title = old[k].title
           /\ old[k].title \notin AggregateTitles => new[k] = old[k]

\* C10: the dashboard addition and removal keep the number, the order and the
\* titles of the widgets: the document holds the widgets it was deployed with,
\* exactly three of them aggregate widgets, and every other widget is written
\* back as it was read.
C10_WidgetFrameKept ==
    /\ SameFrame(dashboard, InitialDashboard)
    /\ Cardinality({k \in DOMAIN dashboard :
                       dashboard[k].title \in AggregateTitles}) = 3
    /\ \A i \in DOMAIN calls :
           calls[i].op = "put_dashboard" =>
               /\ calls[i - 1].op = "get_dashboard"
               /\ SameFrame(calls[i].arg, calls[i - 1].arg)

C10_Witness ==
    /\ lastRecord = Record("REMOVE", "A", NoName)
    /\ Len(calls) = 3
    /\ AllCallsOk
    /\ Len(calls[2].arg[6].metrics) = 3
    /\ Len(dashboard[6].metrics) < 3

\* no aggregate widget of the document holds a line of name
NoSeriesOf(doc, n) ==
    \A k \in DOMAIN doc :
        doc[k].title \in AggregateTitles =>
            \A j \in DOMAIN doc[k].metrics : ~HasDimensionValue(doc[k].metrics[j], n)

\* C11: a dashboard removal for name that read a document in which no
\* aggregate widget holds a line of name writes no document and raises
\* nothing; for a Removed record it is the last backend call and the
\* dashboard is the document that was read.
C11_RemoveAbsentIsNoOp ==
    \A g \in DOMAIN calls :
        (/\ calls[g].op = "get_dashboard"
         /\ calls[g].caller = "remove"
         /\ calls[g].res = "ok"
         /\ NoSeriesOf(calls[g].arg, calls[g].site)) =>
            /\ \A i \in DOMAIN calls :
                   ~(calls[i].op = "put_dashboard" /\ calls[i].caller = "remove")
            /\ lastRecord.eventName = "REMOVE" =>
                   /\ Len(calls) = g
                   /\ dashboard = calls[g].arg
                   /\ caught = "none"

C11_Witness ==
    /\ lastRecord = Record("REMOVE", "B", NoName)
    /\ Len(calls) = 2
    /\ AllCallsOk
    /\ NoSeriesOf(calls[2].arg, "B")
    /\ ~NoSeriesOf(calls[2].arg, "A")
    /\ dashboard = calls[2].arg
    /\ caught = "none"

FailedCalls(op) == {i \in DOMAIN calls : calls[i].op = op /\ calls[i].res # "ok"}

\* C12: a failing get_dashboard or put_dashboard of the dashboard addition or
\* removal, and a failing delete_alarms, never reach the loop of
\* lambda_handler (only a failing alarm creation is caught there); the
\* operation that met the failure issues no further backend call, so it
\* writes no document (a document whose write failed is not stored); when the
\* failure is met by the dashboard addition of Added(name), the three alarms
\* of name exist and the handler returns 200 with nothing caught.
C12_BackendFailuresSwallowed ==
    /\ FailedCalls("put_metric_alarm") = {} => caught = "none"
    /\ \A i \in FailedCalls("get_dashboard") \cup FailedCalls("put_dashboard") :
           /\ \A j \in DOMAIN calls : j > i => calls[j].caller # calls[i].caller
           /\ i = Len(calls) =>
                  dashboard = (IF calls[i].op = "get_dashboard" THEN calls[i].arg
                               ELSE calls[i - 1].arg)
           /\ calls[i].caller = "add" =>
                  /\ ThreeAlarms(calls[i].site) \subseteq alarms
                  /\ caught = "none"
                  /\ status = 200
    /\ \A i \in FailedCalls("delete_alarms") :
           /\ \A j \in DOMAIN calls : calls[j].caller # "remove"
           /\ lastRecord.eventName = "REMOVE" => caught = "none" /\ Len(calls) = i

C12_Witness ==
    /\ lastRecord = Record("INSERT", NoName, "A")
    /\ Len(calls) = 5
    /\ FailedCalls("put_dashboard") = {5}
    /\ dashboard = calls[4].arg
    /\ ThreeAlarms("A") \subseteq alarms
    /\ caught = "none"

SameNameModify(record) ==
    record.eventName = "MODIFY" /\ record.OldImage = record.NewImage

\* C13: handling a Modified record whose old and new name are equal issues no
\* backend call at all and leaves the alarms, the anomaly detectors and the
\* dashboard document as they were; nothing is caught.
C13_SameNameModifyIsNoOp ==
    [][SameNameModify(lastRecord') =>
           /\ calls' = <<>>
           /\ alarms' = alarms
           /\ dashboard' = dashboard
           /\ detectors' = detectors
           /\ created' = created
           /\ caught' = "none"]_vars

C13_Witness ==
    /\ lastRecord = Record("MODIFY", "A", "A")
    /\ calls = <<>>
    /\ ThreeAlarms("A") \subseteq alarms
    /\ ~NoSeriesOf(dashboard, "A")
    /\ status = 200

DetectorsOf(n) == {d \in detectors : d[1] = n}
BothDetectors(n) == {<<n, m>> : m \in Range(AnomalyMetrics)}

\* position of the call of op with argument arg in the log, 0 if there is none
CallAt(op, arg) ==
    LET S == {i \in DOMAIN calls : calls[i].op = op /\ calls[i].arg = arg}
    IN  IF S = {} THEN 0 ELSE CHOOSE i \in S : TRUE

\* C14: after a creation for name that raised nothing, by either module, the
\* detector of (name, Latency) and of (name, Throughput) exist, and the log
\* holds for each of the two metrics a put_anomaly_detector call before the
\* put_metric_alarm call of that metric's alarm.
C14_BaselineBeforeAlarm ==
    (lastOp.op = "create" /\ caught = "none") =>
        /\ BothDetectors(lastOp.name) \subseteq detectors
        /\ \A m \in Range(AnomalyMetrics) :
               LET d == CallAt("put_anomaly_detector", <<lastOp.name, m>>)
                   a == CallAt("put_metric_alarm", AlarmName(lastOp.name, m))
               IN  0 < d /\ d < a

NoCallFailed == \A i \in DOMAIN calls : calls[i].res # "error"

\* C15: after a deletion for name, by either module, in which no backend call
\* failed, no alarm of name and no detector of (name, Latency) or
\* (name, Throughput) exists.
C15_DeleteRemovesBaselines ==
    (lastOp.op = "delete" /\ NoCallFailed) =>
        /\ AlarmsOf(lastOp.name) = {}
        /\ DetectorsOf(lastOp.name) = {}

\* the creation calls of the log, in the order they were issued
Creations == SelectSeq(calls, LAMBDA c : c.op = "put_metric_alarm")

\* C16: the creation calls for name are issued in the order Availability,
\* Latency, Throughput, each only after the one before it succeeded; when the
\* k-th call fails, it is the last backend call of the handler (the later
\* alarms are not attempted and nothing is undone), the alarms created by the
\* calls before it exist, and the failure is what lambda_handler catches.
C16_CreateOrderNoRollback ==
    Adds(lastRecord) =>
        LET n == lastRecord.NewImage
            k == Len(Creations)
        IN  /\ 1 <= k /\ k <= 3
            /\ \A j \in 1..k :
                   /\ Creations[j].arg = alarm_names(n)[j]
                   /\ j < k => Creations[j].res = "ok"
            /\ Creations[k].res = "ok" => k = 3
            /\ Creations[k].res # "ok" =>
                   /\ calls[Len(calls)] = Creations[k]
                   /\ \A j \in 1..(k - 1) : alarm_names(n)[j] \in alarms
                   /\ caught # "none"

C16_Witness ==
    /\ lastRecord = Record("INSERT", NoName, "A")
    /\ Len(calls) = 3
    /\ calls[3].res = "error"
    /\ AlarmsOf("A") = {AlarmName("A", METRIC_AVAILABILITY),
                        AlarmName("A", METRIC_LATENCY)}
    /\ caught = "error"

\* the last record is a rename whose deletion call succeeded and one of whose
\* creation calls failed
HalfRename ==
    /\ IsRename(lastRecord)
    /\ FailedCalls("delete_alarms") = {}
    /\ FailedCalls("put_metric_alarm") # {}

\* C17 (as stated): after a rename whose deletion succeeded and one of whose
\* three creation calls failed, no alarm of the old name and no alarm of the
\* new name exists.
C17_HalfRenameLeavesNoAlarms ==
    HalfRename =>
        /\ AlarmsOf(lastRecord.OldImage) = {}
        /\ AlarmsOf(lastRecord.NewImage) = {}

\* C17 (amended): after a rename whose deletion succeeded and one of whose
\* creation calls failed, no alarm of the old name exists, and the alarms of
\* the new name are those it had before the record together with those of
\* the creation calls that succeeded before the failing one, which are fewer
\* than three; the failure is what lambda_handler catches.
C17_HalfRenameLeavesPartialAlarms ==
    [][HalfRename' =>
           LET old == lastRecord'.OldImage
               new == lastRecord'.NewImage
               made == {calls'[i].arg :
                           i \in {j \in DOMAIN calls' :
                                     /\ calls'[j].op = "put_metric_alarm"
                                     /\ calls'[j].res = "ok"}}
           IN  /\ {a \in alarms' : a[1] = old} = {}
               /\ {a \in alarms' : a[1] = new} = {a \in alarms : a[1] = new} \cup made
               /\ made \subseteq ThreeAlarms(new)
               /\ Cardinality(made) < 3
               /\ caught' # "none"]_vars

C17_Witness ==
    /\ lastRecord = Record("MODIFY", "A", "B")
    /\ calls[1].op = "delete_alarms"
    /\ calls[1].res = "ok"
    /\ calls[1].arg = ThreeAlarms("A")
    /\ Len(Creations) = 2
    /\ Creations[2].res = "error"
    /\ AlarmsOf("A") = {}
    /\ AlarmsOf("B") = {AlarmName("B", METRIC_AVAILABILITY)}
    /\ caught = "error"

\* the metrics the points of one monitoring pass for name can be put on
EmittedKeys(n) ==
    UNION {Range(send_metrics_to_cloudwatch(n, l)) : l \in BOOLEAN}

WatchedKeys(n) == {AlarmMetric(a[1], a[2]) : a \in AlarmsOf(n)}

\* the metrics the lines of the aggregate widgets of the document refer to
ChartedKeys(doc) ==
    UNION {{SubSeq(doc[k].metrics[j], 1, 4) : j \in DOMAIN doc[k].metrics} :
              k \in {i \in DOMAIN doc : doc[i].title \in AggregateTitles}}

SeriesOf(doc, n) ==
    [k \in DOMAIN doc |-> SelectSeq(doc[k].metrics,
                                    LAMBDA m : HasDimensionValue(m, n))]

\* the document call p of race makes of a document
EditOf(p, doc) ==
    IF race[p].op = "add" THEN AddBody(doc, race[p].name)
    ELSE RemoveBody(doc, race[p].name)

\* both calls returned, neither met a failure, p wrote first, and the other
\* call, which wrote second, had fetched before p wrote
Overlapped(p) ==
    /\ race[p].pc = "done" /\ race[Other(p)].pc = "done"
    /\ ~race[p].failed /\ ~race[Other(p)].failed
    /\ race[p].wrote = 1
    /\ race[Other(p)].wrote = 2
    /\ race[Other(p)].seen = 0

\* C19: when two dashboard calls for different names overlap, the second
\* writer having fetched before the first wrote, both return without error
\* and the final document is the second writer's edit of the document both
\* fetched: the lines of the first writer's name are as they were fetched,
\* although the first writer's edit had changed them (last writer wins).
C19_LastWriterWins ==
    \A p \in Calls :
        Overlapped(p) =>
            LET q == Other(p)
                n == race[p].name
            IN  /\ race[p].name # race[q].name
                /\ race[q].doc = race[p].doc
                /\ dashboard = EditOf(q, race[q].doc)
                /\ SeriesOf(EditOf(p, race[p].doc), n) # SeriesOf(race[p].doc, n)
                /\ SeriesOf(dashboard, n) = SeriesOf(race[p].doc, n)

C19_Witness ==
    /\ Overlapped(1)
    /\ race[1].op = "add" /\ race[1].name = "A"
    /\ race[2].op = "add" /\ race[2].name = "B"
    /\ race[1].doc = InitialDashboard
    /\ NoSeriesOf(dashboard, "A")
    /\ ~NoSeriesOf(dashboard, "B")

\* the record handled last is the INSERT of a target whose REMOVE record was
\* handled before it, neither with a failing backend call
RemovedBeforeAdded ==
    /\ delivered.last.record.eventName = "INSERT"
    /\ ~delivered.last.faulted
    /\ \E d \in delivered.earlier :
           /\ d.TargetId = delivered.last.TargetId
           /\ d.record.eventName = "REMOVE"
           /\ ~d.faulted

\* C20: when the REMOVE record of a target is handled before its INSERT
\* record (the target was created, then deleted, and the stream delivered the
\* two out of order), with no backend call failing, neither record has an
\* exception caught and afterwards the three alarms of the name exist and the
\* aggregate widgets hold a line of the name, although the table holds no such
\* target.
C20_DanglingAfterReorder ==
    RemovedBeforeAdded =>
        LET n == delivered.last.record.NewImage
        IN  /\ delivered.last.caught = "none"
            /\ \A d \in delivered.earlier :
                   (d.TargetId = delivered.last.TargetId /\ ~d.faulted) =>
                       d.caught = "none"
            /\ status = 200
            /\ ThreeAlarms(n) \subseteq alarms
            /\ ~NoSeriesOf(dashboard, n)
            /\ delivered.last.TargetId \notin TargetIds

C20_Witness ==
    /\ RemovedBeforeAdded
    /\ delivered.last.record = Record("INSERT", NoName, "A")
    /\ stream = {}
    /\ table = {}
    /\ AlarmsOf("A") = ThreeAlarms("A")
    /\ ~NoSeriesOf(dashboard, "A")

\* ---- the Health Prober (SpecProbe)
Probed == probe.website_name # NoName /\ probe.ret # NoReturn
ProbeResult == probe.ret.result

C23_ProbeClassification ==
    Probed =>
        /\ probe.net.raised = "none" =>
              /\ ProbeResult.availability = (IF probe.net.code = 200 THEN 1 ELSE 0)
              /\ ProbeResult.latency_ms = Some(LatencyMs(probe.net))
        /\ probe.net.raised = "HTTPError" =>
              /\ ProbeResult.availability = 0
              /\ ProbeResult.success = FALSE
              /\ ProbeResult.latency_ms # None
              /\ ProbeResult.latency_ms[1] >= 0
              /\ ProbeResult.throughput_bps = 0
              /\ "status_code" \in DOMAIN ProbeResult
              /\ ProbeResult.status_code = probe.net.code
        /\ probe.net.raised \in Failures =>
              /\ ProbeResult.availability = 0
              /\ ProbeResult.success = FALSE
              /\ ProbeResult.latency_ms = None
              /\ ProbeResult.throughput_bps = 0
        /\ ProbeResult.latency_ms = None <=> probe.net.raised \in Failures

C23_Witness ==
    /\ Probed
    /\ probe.net.raised = "HTTPError"
    /\ probe.net.code = 404
    /\ ProbeResult.status_code = 404
    /\ ProbeResult.latency_ms # None
    /\ ProbeResult.latency_ms[1] > 0

\* C24: the throughput is never negative; it is 0 when the measured latency is
\* 0 ms, and otherwise the byte length of the body divided by the latency in
\* seconds, to the two decimals kept.
C24_ThroughputDefined ==
    Probed =>
        /\ ProbeResult.throughput_bps >= 0
        /\ probe.net.raised = "none" =>
              LET l == ProbeResult.latency_ms[1]
                  t == ProbeResult.throughput_bps
                  exact == ProbeResult.response_size_bytes * 10000000
                  diff == IF t * l >= exact THEN t * l - exact ELSE exact - t * l
              IN  /\ l = 0 => t = 0
                  /\ l > 0 => 2 * diff <= l

\* a request that took time and read a body, its latency rounding to 0.0 ms
C24_Witness ==
    /\ Probed
    /\ probe.net.raised = "none"
    /\ probe.net.end_time > probe.net.start_time
    /\ ProbeResult.response_size_bytes > 0
    /\ ProbeResult.latency_ms = Some(0)
    /\ ProbeResult.throughput_bps = 0

\* ---- the monitoring pass (SpecMonitor)
InPass == pass.pc # "idle"

\* the points of the k-th result have been put, in a call the backend accepted
Emitted(k) ==
    \E j \in DOMAIN pass.puts :
        /\ pass.puts[j].res = "ok"
        /\ pass.puts[j].MetricData = MetricData(pass.all_results[k])

\* C21: a put_metric_data the backend rejects for one target is caught: the
\* handler does not raise, every target of the pass is probed, and every
\* target whose own call was not rejected has its points emitted, the targets
\* after a rejected one included.
C21_EmitFailureIsolated ==
    InPass =>
        /\ pass.pc # "raised"
        /\ \A k \in DOMAIN pass.all_results : k \notin pass.rejected => Emitted(k)
        /\ pass.pc = "returned" => Len(pass.all_results) = Len(pass.targets)

\* three targets, the call for the second rejected
C21_Witness ==
    /\ InPass
    /\ pass.pc = "returned"
    /\ Len(pass.targets) = 3
    /\ pass.rejected = {2}
    /\ Emitted(1)
    /\ ~Emitted(2)
    /\ Emitted(3)

\* the names of the points of a call, in order
PointNames(metric_data) == [i \in DOMAIN metric_data |-> metric_data[i].MetricName]

\* the point of the call named metric
PointOf(metric_data, metric) ==
    CHOOSE p \in Range(metric_data) : p.MetricName = metric

\* C25: for each result one call puts Availability and Throughput, and Latency
\* exactly when latency_ms is not null (three points, or two), under the fixed
\* namespace, every point with the single dimension Website = the target's
\* name, the value of the result and the timestamp of the probe; no call
\* carries more than 20 points.
C25_PointsOfResult ==
    InPass =>
        /\ Len(pass.puts) = Len(pass.all_results)
        /\ \A k \in DOMAIN pass.puts :
              LET r == pass.all_results[k]
                  md == pass.puts[k].MetricData
              IN  /\ pass.puts[k].Namespace = "WebMonitoring/Health"
                  /\ Len(md) <= 20
                  /\ PointNames(md) =
                        IF r.latency_ms # None
                        THEN <<"Availability", "Latency", "Throughput">>
                        ELSE <<"Availability", "Throughput">>
                  /\ \A i \in DOMAIN md :
                        /\ md[i].Dimensions = << <<"Website", r.website_name>> >>
                        /\ md[i].Timestamp = r.timestamp
                  /\ PointOf(md, "Availability").Value = r.availability
                  /\ PointOf(md, "Throughput").Value = r.throughput_bps
                  /\ r.latency_ms # None =>
                        PointOf(md, "Latency").Value = r.latency_ms[1]

\* a pass that emitted three points for one target and two for another
C25_Witness ==
    /\ InPass
    /\ \E k \in DOMAIN pass.puts : Len(pass.puts[k].MetricData) = 3
    /\ \E k \in DOMAIN pass.puts :
          /\ Len(pass.puts[k].MetricData) = 2
          /\ pass.all_results[k].latency_ms = None
          /\ pass.puts[k].res = "ok"

\* the urls of a list of targets or of results, in order
Urls(seq) == [i \in DOMAIN seq |-> seq[i].url]

EnabledItems == {item \in table : item.enabled}

Handled == http.request.httpMethod # "NONE"
IsPost == http.request.httpMethod = "POST" /\ http.request.path = "/targets"
PostedBody == http.request.body
LacksField == PostedBody.json /\ (PostedBody.name = Absent \/ PostedBody.url = Absent)
HasFields == PostedBody.json /\ PostedBody.name # Absent /\ PostedBody.url # Absent

\* the store accepts the item of the request handled: no call of the request
\* fails and the item holds no value the client cannot serialise
StoreAccepts ==
    /\ http.faults = {}
    /\ \A a \in Attributes : Serializable(PostedBody[a])

\* table' holds one record more than table, under a TargetId no record had,
\* with the name and url posted (enabled true unless posted), and the
\* response is 201 with that record
StoredAndReturned ==
    /\ http'.response.statusCode = 201
    /\ table \subseteq table'
    /\ Cardinality(table' \ table) = 1
    /\ \A item \in table' \ table :
          /\ item.TargetId \notin TargetIds
          /\ item.name.v = PostedBody'.name.v
          /\ item.url.v = PostedBody'.url.v
          /\ PostedBody'.enabled = Absent => item.enabled = PyBool("true")
          /\ http'.response.body.TargetId = item.TargetId
          /\ http'.response.body.name = PostedBody'.name
          /\ http'.response.body.url = PostedBody'.url
          /\ http'.response.body.enabled = item.enabled

OnItem ==
    /\ http.request.path = "/targets/{id}"
    /\ http.request.id # 0
    /\ http.request.httpMethod \in {"GET", "PUT", "DELETE"}

\* the request matches none of the five routes
NoRoute ==
    ~ \/ http.request.path = "/targets" /\ http.request.httpMethod \in {"GET", "POST"}
      \/ http.request.path = "/targets/{id}"
            /\ http.request.httpMethod \in {"GET", "PUT", "DELETE"}

\* C28 as stated: GET, PUT and DELETE on /targets/{id} for an id the table
\* does not hold return 404 and leave the table unchanged, and a request that
\* matches no route returns 404 and leaves the table unchanged.
C28_AbsentIdIs404 ==
    [][/\ (OnItem' /\ http'.request.id \notin TargetIds) =>
              (http'.response.statusCode = 404 /\ table' = table)
       /\ (Handled' /\ NoRoute') =>
              (http'.response.statusCode = 404 /\ table' = table)]_vars

\* C28: GET, PUT and DELETE on /targets/{id} for an id the table does not hold
\* leave the table unchanged and return 404, or 500 when the lookup fails or
\* the body of the PUT is not JSON; a request that matches no route leaves the
\* table unchanged and returns 404, or 400 when its path is under /targets/
\* and carries no id.
C28_AbsentIdLeavesStore ==
    [][/\ (OnItem' /\ http'.request.id \notin TargetIds) =>
              /\ table' = table
              /\ http'.response.statusCode =
                    IF \/ 1 \in http'.faults
                       \/ (http'.request.httpMethod = "PUT" /\ ~PostedBody'.json)
                    THEN 500 ELSE 404
       /\ (Handled' /\ NoRoute') =>
              /\ table' = table
              /\ http'.response.statusCode =
                    IF http'.request.path = "/targets/{id}" /\ http'.request.id = 0
                    THEN 400 ELSE 404]_vars

\* a DELETE for an id the table does not hold, refused while another record is
\* there
C28_Witness ==
    /\ Handled
    /\ OnItem
    /\ http.request.httpMethod = "DELETE"
    /\ http.request.id \notin TargetIds
    /\ http.response.statusCode = 404
    /\ table # {}

\* what GET /targets/{id} returns for the table as it is after the step, the
\* store answering
GetAfter(target_id) == get_target(table', target_id, {}).response

\* C29: after a create that returned the record of TargetId t, get(t) returns
\* that record; after an update of t with a name that returned 200, get(t)
\* returns the record of TargetId t with that name; after a delete of t that
\* returned 200, get(t) returns 404.  No request changes the TargetId of a
\* record: an update leaves the TargetIds of the table as they were.
C29_RoundTrip ==
    [][/\ (IsPost' /\ http'.response.statusCode = 201) =>
              GetAfter(http'.response.body.TargetId)
                  = success_response(http'.response.body, 200)
       /\ (OnItem' /\ http'.request.httpMethod = "PUT"
              /\ http'.response.statusCode = 200 /\ PostedBody'.name # Absent) =>
              /\ GetAfter(http'.request.id).statusCode = 200
              /\ GetAfter(http'.request.id).body.TargetId = http'.request.id
              /\ GetAfter(http'.request.id).body.name = PostedBody'.name
       /\ (OnItem' /\ http'.request.httpMethod = "DELETE"
              /\ http'.response.statusCode = 200) =>
              GetAfter(http'.request.id).statusCode = 404
       /\ (OnItem' /\ http'.request.httpMethod = "PUT") =>
              {item.TargetId : item \in table'} = TargetIds]_vars

\* ---- re-application of Added (Spec)
\* every aggregate widget of the dashboard holds at most one line per name
AtMostOneSeries ==
    \A n \in Names : \A k \in DOMAIN dashboard :
        dashboard[k].title \in AggregateTitles =>
            Len(SeriesOf(dashboard, n)[k]) <= 1

\* the step handles, with no call failing, the INSERT record that was handled
\* just before it with no call failing
Redelivered ==
    /\ lastRecord.eventName = "INSERT"
    /\ AllCallsOk /\ caught = "none"
    /\ lastRecord' = lastRecord
    /\ AllCallsOk' /\ caught' = "none"

\* C30: handling the INSERT of a name a second time leaves the alarms and the
\* dashboard document as the first handling left them, and after any sequence
\* of records every aggregate widget holds at most one series per name.
C30_AddedTwiceIsAddedOnce ==
    [][/\ Redelivered => (alarms' = alarms /\ dashboard' = dashboard)
       /\ AtMostOneSeries']_vars

C38_SyncMatchesTargets ==
    [][(/\ lastOp'.op = "sync"
        /\ table' = table
        /\ caught' = "none"
        /\ \A i \in DOMAIN calls' : calls'[i].res = "ok")
       => \A n \in ManagerNames :
              {a \in alarms' : a[1] = n} =
                  IF n \in get_all_current_targets(table) THEN ThreeAlarms(n)
                  ELSE {}]_vars

ReadFailed == pass.scan \in {"error", "unset"}

NothingProbed ==
    /\ pass.pc = "returned"
    /\ pass.statusCode = 200
    /\ pass.targets = <<>>
    /\ pass.all_results = <<>>
    /\ pass.puts = <<>>

\* C37 as stated: when the scan raises, or TARGETS_TABLE_NAME is unset, or an
\* item of the table lacks name or url, the pass probes nothing, emits
\* nothing and returns statusCode 200 with no results.
C37_UnreadableStoreIsEmpty ==
    (InPass /\ (ReadFailed \/ \E item \in table : ~HasKeys(item))) => NothingProbed

\* C37 amended: when the scan raises, or TARGETS_TABLE_NAME is unset, or an
\* item the scan returns (an item whose enabled flag is true) lacks name or
\* url, the pass probes nothing, emits nothing and returns statusCode 200
\* with no results.
C37_UnreadableListIsEmpty ==
    (InPass /\ (ReadFailed \/ \E item \in table : IsEnabled(item) /\ ~HasKeys(item)))
        => NothingProbed

\* a scan that returned an enabled item without a key next to an enabled
\* item with both keys: neither is probed
C37_Witness ==
    /\ InPass
    /\ pass.scan = "ok"
    /\ \E item \in table : IsEnabled(item) /\ ~HasKeys(item)
    /\ \E item \in table : IsEnabled(item) /\ HasKeys(item)
    /\ NothingProbed

\* ---- the Widget Manager for any display name (SpecWidgets)
\* a line add_dashboard_widgets appended for a target: its label is the
\* target's name (the placeholder lines carry another label or none)
IsTargetLine(m) == Len(m) = 5 /\ m[5] = [label |-> m[4]]

\* per widget, the lines of the targets other than n, in order
LinesOfOthers(doc, n) ==
    [k \in DOMAIN doc |->
        IF doc[k].title \in AggregateTitles
        THEN SelectSeq(doc[k].metrics, LAMBDA m : IsTargetLine(m) /\ m[4] # n)
        ELSE <<>>]

\* C36: add_dashboard_widgets(name) leaves, in every aggregate widget, the
\* lines of every other target in place and in order, for every display
\* name, the placeholder value included.
C36_AddKeepsOtherSeries ==
    [][lastOp'.op = "add" =>
           LinesOfOthers(dashboard', lastOp'.name) =
               LinesOfOthers(dashboard, lastOp'.name)]_vars

\* ---- update_target against concurrent requests (SpecCrudRace)
\* C34: an update_target whose item was deleted after its get_item found it
\* leaves no item under that id in the table when it has completed.
C34_UpdateNeverCreates ==
    [][(/\ inflight.pc = "checked"
        /\ inflight'.pc = "done"
        /\ inflight.request.id \notin TargetIds)
       => inflight.request.id \notin {t.TargetId : t \in table'}]_vars

\* ---- the lifecycle of targets (SpecStream, SpecLifecycle)
Deliveries ==
    delivered.earlier \cup (IF delivered.last = NoDelivery THEN {} ELSE {delivered.last})

NoDeliveryFaulted == \A d \in Deliveries : ~d.faulted

\* every record written has been delivered, in order, with no call failing
Processed == stream = {} /\ history.ordered /\ NoDeliveryFaulted

HasSeries(doc, n) ==
    \A k \in DOMAIN doc :
        doc[k].title \in AggregateTitles =>
            \E j \in DOMAIN doc[k].metrics : HasDimensionValue(doc[k].metrics[j], n)

\* a target of name n is in the table and none of its records is pending
Settled(n, pending) ==
    \E t \in table : t.name = n /\ \A e \in pending : e.TargetId # t.TargetId

\* C31: when the REMOVE record of a target named n is handled, before every
\* record written after it and with no call failing, while another target
\* named n is in the table and has its alarms and series, the three alarms
\* and the series of n are still there afterwards.
C31_SurvivorKeepsAlarms ==
    [][\A n \in Names :
          (/\ stream' # stream
           /\ delivered'.last.record = Record("REMOVE", n, NoName)
           /\ ~delivered'.last.faulted
           /\ \A x \in stream : delivered'.last.seq <= x.seq
           /\ Settled(n, stream')
           /\ ThreeAlarms(n) \subseteq alarms
           /\ HasSeries(dashboard, n))
          => (ThreeAlarms(n) \subseteq alarms' /\ HasSeries(dashboard', n))]_vars

\* C32: when names were unique throughout and every record written has been
\* delivered, in order and with no call failing, the names that have alarms
\* are the names of the targets in the table, each with its three alarms.
C32_Convergence ==
    (Processed /\ history.unique) =>
        \A n \in Names :
            AlarmsOf(n) = IF \E t \in table : t.name = n THEN ThreeAlarms(n) ELSE {}

\* a target created and then renamed, both records delivered
C32_Witness ==
    /\ Processed
    /\ history.unique
    /\ clock >= 2
    /\ delivered.last.record = Record("MODIFY", "A", "B")
    /\ \E t \in table : t.name = "B"
    /\ AlarmsOf("B") = ThreeAlarms("B")
    /\ AlarmsOf("A") = {}

\* C33: when names were unique throughout and every record written has been
\* delivered, in order and with no call failing, every name that has an alarm
\* is the name of a target whose enabled flag is true.
C33_AlarmsOnlyForEnabled ==
    (Processed /\ history.unique) =>
        \A n \in Names :
            AlarmsOf(n) # {} => \E t \in table : t.name = n /\ t.enabled

====
